---- MODULE Spec2Model ----
(***************************************************************************)
(* Verification model of wipe_disk (WipeDisk Enterprise).                  *)
(*                                                                         *)
(* Sizes are counted in MiB.  Error values are Go error strings ("" is     *)
(* nil); the code classifies errors by substring search on their text, so  *)
(* the text is kept.  Cyrillic text is written transliterated with a "^"   *)
(* in front of every letter (operator Ru), so that it never matches a      *)
(* Latin pattern and always matches the same Cyrillic pattern.             *)
(***************************************************************************)
EXTENDS Integers, Sequences, FiniteSets, TLC

MiB == 1
GiB == 1024

(***************************************************************************)
(* Bounds of the explored inputs.                                          *)
(***************************************************************************)
MaxPasses == 2      \* cfg.Wipe.HDDPasses, cfg.Wipe.SSDPasses in 1..MaxPasses
MaxFreeGiB == 1     \* disk.FreeSize up to MaxFreeGiB GiB + 512 MiB
MaxPhases == 3      \* phases of a maintenance plan
ProgressCap == 2    \* updates the progress channel holds (100 in app.go)
MaxWrites == 4      \* writes, each followed by an update, before the disk is full
NumCallers == 3     \* goroutines that call one ThrottledWriter
MaxCalls == 4       \* calls made on one ThrottledWriter
NumOwners == 2      \* goroutines that use the buffer pool
MaxBuffers == 2     \* backing arrays the New of the sync.Pools makes
Second == 4         \* units of time.Duration in a second (10^9 in Go)
MaxClock == 12      \* the clock of the paced writer stops here
PacedWrites == 2    \* calls of Write on the paced writer
MaxDisks == 2       \* disks GetDiskInfo lists for the wipe_free_space phase
MaxTurns == 2       \* files a session of the termination check can write in full

(***************************************************************************)
(* Strings.                                                                *)
(***************************************************************************)
Contains(s, substr) ==
    \E i \in 1..(Len(s) - Len(substr) + 1) : SubSeq(s, i, i + Len(substr) - 1) = substr

HasPrefix(s, prefix) ==
    Len(s) >= Len(prefix) /\ SubSeq(s, 1, Len(prefix)) = prefix

HasSuffix(s, suffix) ==
    Len(s) >= Len(suffix) /\ SubSeq(s, Len(s) - Len(suffix) + 1, Len(s)) = suffix

UpperLetters == "ABCDEFGHIJKLMNOPQRSTUVWXYZ"
LowerLetters == "abcdefghijklmnopqrstuvwxyz"

LowerChar(c) ==
    IF \E i \in 1..26 : SubSeq(UpperLetters, i, i) = c
    THEN LET i == CHOOSE j \in 1..26 : SubSeq(UpperLetters, j, j) = c
         IN  SubSeq(LowerLetters, i, i)
    ELSE c

UpperChar(c) ==
    IF \E i \in 1..26 : SubSeq(LowerLetters, i, i) = c
    THEN LET i == CHOOSE j \in 1..26 : SubSeq(LowerLetters, j, j) = c
         IN  SubSeq(UpperLetters, i, i)
    ELSE c

RECURSIVE ToUpper(_)
ToUpper(s) ==
    IF s = "" THEN "" ELSE UpperChar(SubSeq(s, 1, 1)) \o ToUpper(SubSeq(s, 2, Len(s)))

RECURSIVE ToLower(_)
ToLower(s) ==
    IF s = "" THEN "" ELSE LowerChar(SubSeq(s, 1, 1)) \o ToLower(SubSeq(s, 2, Len(s)))

\* strings.EqualFold, for ASCII text
EqualFold(s, t) == ToLower(s) = ToLower(t)

RECURSIVE Ru(_)
Ru(s) ==
    IF s = "" THEN ""
    ELSE LET c == SubSeq(s, 1, 1)
         IN  (IF c \in {" ", ":"} THEN c ELSE "^" \o c) \o Ru(SubSeq(s, 2, Len(s)))

Digit(d) == SubSeq("0123456789", d + 1, d + 1)

\* fmt.Sprintf("%03d", i)
Sprintf03d(i) ==
    (IF i >= 1000 THEN Digit(i \div 1000) ELSE "")
        \o Digit((i \div 100) % 10) \o Digit((i \div 10) % 10) \o Digit(i % 10)

(***************************************************************************)
(* Platform errors of file operations (the text of the os error).          *)
(***************************************************************************)
OsDiskFullWindows == "There is not enough space on the disk."
OsDiskFullUnix    == "no space left on device"
OsNotReady        == "The device is not ready."
OsAccessDenied    == "Access is denied."

OsDiskFull == {OsDiskFullWindows, OsDiskFullUnix}
OsErrors   == OsDiskFull \cup {OsNotReady, OsAccessDenied}

\* *os.PathError: op + " " + path + ": " + text
PathError(op, path, text) == op \o " " \o path \o ": " \o text

ERROR_NOT_READY == 21
ERROR_DISK_FULL == 112

\* IsWindowsError without the patterns "not enough space" and "no space":
\* the classification a volume-full error needs to end a pass cleanly.
IsWindowsErrorDiskFullOnly(err, code) ==
    IF err = "" THEN FALSE
    ELSE LET msg == ToLower(err)
         IN  CASE code = ERROR_DISK_FULL  -> Contains(msg, "disk full")
               [] code = ERROR_NOT_READY  -> Contains(msg, "not ready")
               [] OTHER -> FALSE

\* IsWindowsError (part_008 11-27)
IsWindowsError(err, code) ==
    IF err = "" THEN FALSE
    ELSE LET msg == ToLower(err)
         IN  CASE code = ERROR_DISK_FULL ->
                     \/ Contains(msg, "disk full")
                     \/ Contains(msg, "not enough space")
                     \/ Contains(msg, "no space")
               [] code = ERROR_NOT_READY ->
                     \/ Contains(msg, "not ready")
                     \/ Contains(msg, "device not ready")
               [] OTHER -> FALSE

(***************************************************************************)
(* Error texts of WipeSession.                                             *)
(***************************************************************************)
ErrTimeLimitRu    == Ru("dostignut limit vremeni operacii")
ErrCancelledRu    == Ru("operaciya otmenena")
ErrDiskNotReadyRu == Ru("disk nedostupen: ")
ErrCreateFileRu   == Ru("oshibka sozdaniya fayla: ")
ErrTimeLimitEn    == "operation time limit reached"


(***************************************************************************)
(* State.                                                                  *)
(***************************************************************************)
VARIABLES
    driver,       \* which executeWipeSession is built in: "part_009" or "part_012"
    disk,         \* system.DiskInfo handed to WipeFreeSpace
    cfg,          \* config.Config (the cfg.Wipe fields the wipe reads)
    dryRun,
    maxDuration,  \* 0 = no limit
    ctx,          \* context: "active", "canceled" (ctx.Err() = context.Canceled), "deadline"
    elapsed,      \* time.Since(ws.StartTime) > ws.MaxDuration
    volume,       \* the device: .capacity = MiB it really accepts (the free-space
                  \* estimate may be stale), .badAt/.badErr = a fill level at which
                  \* a write fails with an I/O error (-1: none)
    files,        \* the volume: file name -> MiB stored in it
    op,           \* WipeOperation
    pass,
    ws,           \* WipeSession
    ex,           \* locals of WipeSession.Execute
    cwf,          \* locals of WipeSession.createWipeFile
    err,          \* error travelling up ("" = nil)
    pc,
    hist          \* history, for stating the properties:
                  \*   .cause        why the current Execute ended ("none": running)
                  \*   .causes       the causes of all Execute of the operation
                  \*   .created      files the current session created on the volume
                  \*   .done         files the current session wrote to their end
                  \*   .sessAccepted MiB the volume took from the current session
                  \*   .opAccepted   MiB the volume took from all sessions
                  \*   .removeFailed an os.Remove of the last Cleanup failed

VARIABLES
    mode,         \* WipeMode of wipeWithStrategy
    profile,
    wipeConfig,   \* WipeConfig
    sp,           \* locals of executeStandardPass / executeCipherPass
    clf           \* locals of createLargeFile / createCipherFile

VARIABLES
    cli,          \* the `wipe` command: flags, environment and locals of runWipe
    vr            \* the verifier: PhysicalVerifier and the VerificationReport it fills

VARIABLES
    mo,           \* MaintenanceOrchestrator.ExecutePlan: plan, goroutines, channel, report
    pw,           \* PersistentFileWiper.Wipe and the progress channel of its caller
    tw,           \* one ThrottledWriter and the goroutines calling it
    bp,           \* globalBufferPool, its sync.Pools, the buffers and their owners
    th,           \* one ThrottledWriter with a clock: the pacing of Write
    ph            \* MaintenanceOrchestrator.wipeFreeSpace

\* the components beside the wipe, the command and the verifier
extVars == <<mo, pw, tw, bp, th, ph>>

wipeIn       == <<driver, disk, cfg, dryRun, maxDuration, volume>>
wipeVars     == <<wipeIn, ctx, elapsed, files, op, pass, ws, ex, cwf, err, pc, hist>>
strategyVars == <<mode, profile, wipeConfig, sp, clf>>

\* what the free-space wipe through WipeSession never touches
otherVars == <<strategyVars, cli, vr, extVars>>
\* what a wipe with a strategy never touches
sessionVars == <<driver, cfg, dryRun, maxDuration, volume, elapsed, ws, ex, cwf, cli, vr, extVars>>

vars == <<wipeVars, otherVars>>

(***************************************************************************)
(* WipeSession (internal/wipe/engine.go).                                  *)
(***************************************************************************)
minThreshold  == 1 * GiB
maxFiles      == 1000
maxIterations == 10000

NewWipeSession(d, diskType, freeSpace, maxSpeedMBps, fileDelayMs, maxDur) ==
    [ Disk         |-> d,
      DiskType     |-> diskType,
      FreeSpace    |-> freeSpace,
      MaxSpeedMBps |-> maxSpeedMBps,
      FileDelayMs  |-> fileDelayMs,
      MaxDuration  |-> maxDur,
      CreatedFiles |-> << >>,
      BytesWritten |-> 0,
      InitialFree  |-> freeSpace ]

NoSession == NewWipeSession("", "", 0, 0, 0, 0)

getAdaptiveChunkSize(diskType) ==
    CASE diskType = "HDD" -> 2 * MiB
      [] diskType = "SSD" -> 16 * MiB
      [] OTHER            -> 4 * MiB

\* rand.Int63n(n): any value of 0..n-1
Int63n(n) == 0..(n - 1)

\* A file size without the minimum of 1 GiB.
FileSizeChoicesNoMinimum(freeSpace) == {(freeSpace \div 10) \div 2}

\* The file size Execute picks for a free-space estimate (lines 489-508).
FileSizeChoices(freeSpace) ==
    LET half        == (freeSpace \div 10) \div 2
        capped      == IF half > 50 * GiB THEN 50 * GiB ELSE half
        minFileSize == 1 * GiB
        maxFileSize == IF capped < minFileSize THEN minFileSize ELSE capped
        drawn       == IF maxFileSize = minFileSize
                       THEN {minFileSize}
                       ELSE {minFileSize + r : r \in Int63n(maxFileSize - minFileSize)}
    IN  {IF s > freeSpace THEN freeSpace ELSE s : s \in drawn}

WipeFileName(d, fileIndex) == d \o "wipe_" \o Sprintf03d(fileIndex) \o ".tmp"

Used == LET RECURSIVE Sum(_)
            Sum(S) == IF S = {} THEN 0
                      ELSE LET f == CHOOSE g \in S : TRUE IN files[f] + Sum(S \ {f})
        IN  Sum(DOMAIN files)

Min(a, b) == IF a < b THEN a ELSE b

\* Why the context is done, as Execute reports it (lines 460-467, 533-540).
CtxDoneError == IF ctx = "deadline" THEN ErrTimeLimitRu ELSE ErrCancelledRu
CtxDoneCause == IF ctx = "deadline" THEN "deadline" ELSE "cancel"

\* Execute returns e.
ExecuteReturns(e, cause) ==
    /\ err' = e
    /\ hist' = [hist EXCEPT !.cause = cause, !.causes = @ \cup {cause}]
    /\ pc' = "cleanup"

\* One turn of Execute's loop, up to the call of createWipeFile (lines 457-511).
ExecuteLoop ==
    /\ pc = "exec_loop"
    /\ UNCHANGED <<otherVars, wipeIn, ctx, elapsed, files, op, pass, ws>>
    /\ IF ~(ws.FreeSpace > minThreshold /\ ex.fileIndex <= maxFiles)
       THEN ExecuteReturns("", "exhausted") /\ UNCHANGED <<ex, cwf>>
       ELSE IF ctx # "active"
       THEN ExecuteReturns(CtxDoneError, CtxDoneCause) /\ UNCHANGED <<ex, cwf>>
       ELSE IF ws.MaxDuration > 0 /\ elapsed
       THEN ExecuteReturns(ErrTimeLimitRu, "maxduration") /\ UNCHANGED <<ex, cwf>>
       ELSE LET same  == ws.FreeSpace = ex.previousFreeSpace
                stuck == IF same THEN ex.stuckCounter + 1 ELSE 0
            IN  IF same /\ stuck > 3
                THEN /\ ExecuteReturns("", "stuck")
                     /\ ex' = [ex EXCEPT !.stuckCounter = stuck]
                     /\ UNCHANGED cwf
                ELSE /\ ex' = [ex EXCEPT !.stuckCounter = stuck,
                                         !.previousFreeSpace = ws.FreeSpace]
                     /\ \E fileSize \in FileSizeChoices(ws.FreeSpace) :
                            cwf' = [ filename |-> WipeFileName(ws.Disk, ex.fileIndex),
                                     fileSize |-> fileSize,
                                     written  |-> 0,
                                     toWrite  |-> 0,
                                     off      |-> 0 ]
                     /\ pc' = "cwf_begin"
                     /\ UNCHANGED <<err, hist>>

\* createWipeFile returns e to Execute (the deferred Close calls run).
CreateWipeFileReturns(e, cause) ==
    /\ err' = e
    /\ pc' = "exec_after"
    /\ hist' = [hist EXCEPT !.cause = cause]

OsErrorCause(e) ==
    IF e \in OsDiskFull THEN "diskfull" ELSE IF e = OsNotReady THEN "notready" ELSE "error"

\* createWipeFile up to os.Create (lines 312-347).
CreateWipeFileBegin ==
    /\ pc = "cwf_begin"
    /\ UNCHANGED <<otherVars, wipeIn, ctx, elapsed, op, pass, ws, ex, cwf>>
    /\ IF ws.MaxDuration > 0 /\ elapsed
       THEN CreateWipeFileReturns(ErrTimeLimitEn, "maxduration") /\ UNCHANGED files
       ELSE \/ \E e \in OsErrors :
                 /\ CreateWipeFileReturns(
                        "failed to create file " \o cwf.filename \o ": "
                            \o PathError("open", cwf.filename, e), OsErrorCause(e))
                 /\ UNCHANGED files
            \/ /\ files' = [f \in DOMAIN files \cup {cwf.filename} |->
                               IF f = cwf.filename THEN 0 ELSE files[f]]
               /\ hist' = [hist EXCEPT !.created = @ \cup {cwf.filename}]
               /\ pc' = "cwf_loop"
               /\ UNCHANGED err

\* Head of the chunk loop, FillRandom, and ThrottledWriter.Write up to its
\* pacing decision (engine.go 350-374, throttled_writer.go 30-52).
CreateWipeFileChunk ==
    /\ pc = "cwf_loop"
    /\ UNCHANGED <<otherVars, wipeIn, ctx, elapsed, files, op, pass, ws, ex, err, hist>>
    /\ IF cwf.written < cwf.fileSize
       THEN LET chunkSize == getAdaptiveChunkSize(ws.DiskType)
                remaining == cwf.fileSize - cwf.written
            IN  /\ cwf' = [cwf EXCEPT !.toWrite = Min(chunkSize, remaining), !.off = 0]
                /\ \/ pc' = "tw_write"
                   \/ ws.MaxSpeedMBps > 0 /\ pc' = "tw_sleep"
       ELSE /\ pc' = "cwf_sync"
            /\ UNCHANGED cwf

\* time.Sleep(expected - actual) returns (throttled_writer.go 48-50).
ThrottledWriterSleep ==
    /\ pc = "tw_sleep"
    /\ pc' = "tw_write"
    /\ UNCHANGED <<otherVars, wipeIn, ctx, elapsed, files, op, pass, ws, ex, cwf, err, hist>>

\* What file.Write of `len` MiB does: <<n, error text>>.  The bytes before
\* a bad spot or before the end of the volume are taken.
FileWriteOutcomes(len) ==
    LET room == IF volume.capacity > Used THEN volume.capacity - Used ELSE 0
        hit  == /\ volume.badAt >= Used
                /\ volume.badAt < Used + len
                /\ volume.badAt - Used <= room
    IN  IF hit THEN {<<volume.badAt - Used, volume.badErr>>}
        ELSE IF room >= len THEN {<<len, "">>}
        ELSE {<<room, e>> : e \in OsDiskFull}

CountWritten(n) == IF n > 0 THEN n ELSE 0

\* tw.file.Write(data) and the rest of the inner loop (throttled_writer.go 54-56, engine.go 374-388).
ThrottledWriterWrite ==
    /\ pc = "tw_write"
    /\ UNCHANGED <<otherVars, wipeIn, ctx, elapsed, op, pass, ex>>
    /\ \E out \in FileWriteOutcomes(cwf.toWrite - cwf.off) :
         LET n == out[1]
             e == out[2]
             c == CountWritten(n)
         IN  /\ files' = [files EXCEPT ![cwf.filename] = @ + n]
             /\ cwf' = [cwf EXCEPT !.off = @ + c, !.written = @ + c]
             /\ ws' = [ws EXCEPT !.BytesWritten = @ + c]
             /\ IF e # ""
                THEN /\ err' = "file write error: " \o PathError("write", cwf.filename, e)
                     /\ pc' = "exec_after"
                     /\ hist' = [hist EXCEPT !.cause = OsErrorCause(e),
                                            !.sessAccepted = @ + n, !.opAccepted = @ + n]
                ELSE /\ hist' = [hist EXCEPT !.sessAccepted = @ + n, !.opAccepted = @ + n]
                     /\ IF n = 0
                        THEN /\ err' = "write returned 0 bytes without error"
                             /\ pc' = "exec_after"
                        ELSE /\ err' = err
                             /\ pc' = IF cwf.off + c < cwf.toWrite THEN "tw_write" ELSE "cwf_loop"

\* throttledWriter.Sync() and the bookkeeping after it (lines 391-405).
CreateWipeFileSync ==
    /\ pc = "cwf_sync"
    /\ UNCHANGED <<otherVars, wipeIn, ctx, elapsed, files, op, pass, ex, cwf>>
    /\ \/ \E e \in {OsNotReady, OsAccessDenied} :
            /\ CreateWipeFileReturns("sync error: " \o PathError("sync", cwf.filename, e),
                                     OsErrorCause(e))
            /\ UNCHANGED ws
       \/ /\ ws' = [ws EXCEPT !.CreatedFiles = Append(@, cwf.filename),
                              !.FreeSpace = IF @ >= cwf.fileSize THEN @ - cwf.fileSize ELSE 0]
          /\ err' = ""
          /\ pc' = "exec_after"
          /\ hist' = [hist EXCEPT !.done = @ \cup {cwf.filename}]

\* The end of a loop turn: the break on maxIterations (lines 547-550).
ExecuteNextTurn(fileIndex) ==
    IF fileIndex > maxIterations
    THEN ExecuteReturns("", "iterations")
    ELSE pc' = "exec_loop" /\ UNCHANGED <<err, hist>>

\* Execute after createWipeFile returned (lines 512-550), up to the pause.
ExecuteAfterCreate ==
    /\ pc = "exec_after"
    /\ UNCHANGED <<otherVars, wipeIn, ctx, elapsed, files, op, pass, ws, cwf>>
    /\ IF err # ""
       THEN /\ UNCHANGED ex
            /\ IF IsWindowsError(err, ERROR_DISK_FULL)
               THEN ExecuteReturns("", hist.cause)
               ELSE IF IsWindowsError(err, ERROR_NOT_READY)
               THEN ExecuteReturns(ErrDiskNotReadyRu \o err, hist.cause)
               ELSE ExecuteReturns(ErrCreateFileRu \o err, hist.cause)
       ELSE /\ ex' = [ex EXCEPT !.fileIndex = @ + 1]
            /\ IF ws.FileDelayMs > 0
               THEN pc' = "exec_delay" /\ UNCHANGED <<err, hist>>
               ELSE ExecuteNextTurn(ex.fileIndex + 1)

\* The pause between files: select on ctx.Done() and time.After (lines 530-550).
ExecuteDelay ==
    /\ pc = "exec_delay"
    /\ UNCHANGED <<otherVars, wipeIn, ctx, elapsed, files, op, pass, ws, ex, cwf>>
    /\ \/ /\ ctx # "active"
          /\ ExecuteReturns(CtxDoneError, CtxDoneCause)
       \/ ExecuteNextTurn(ex.fileIndex)

\* Cleanup: os.Remove of every listed file; a failure is only logged.
Cleanup ==
    /\ pc = "cleanup"
    /\ \E failed \in SUBSET {ws.CreatedFiles[i] : i \in 1..Len(ws.CreatedFiles)} :
         LET listed  == {ws.CreatedFiles[i] : i \in 1..Len(ws.CreatedFiles)}
             removed == (listed \ failed) \cap DOMAIN files
         IN  /\ files' = [f \in DOMAIN files \ removed |-> files[f]]
             /\ hist' = [hist EXCEPT !.removeFailed = (failed # {})]
    /\ ws' = [ws EXCEPT !.CreatedFiles = << >>]
    /\ pc' = "handle"
    /\ UNCHANGED <<otherVars, wipeIn, ctx, elapsed, op, pass, ex, cwf, err>>


(***************************************************************************)
(* WipeOperation and the two executeWipeSession of the repository.         *)
(***************************************************************************)
NewOperation(letter, method, passes, chunkSize) ==
    [ Disk       |-> letter,
      Method     |-> method,
      Passes     |-> passes,
      ChunkSize  |-> chunkSize,
      Status     |-> "RUNNING",
      EndTime    |-> FALSE,      \* set or nil
      BytesWiped |-> 0,
      Error      |-> "",
      Warning    |-> "" ]

NoOperation == NewOperation("", "", 0, 0)

Terminal == {"COMPLETED", "PARTIAL", "CANCELLED", "FAILED"}

\* dry run of both (part_009 46-54; part_012 54-57, completeOperation 106-112)
completeOperation(o, size, status) ==
    [o EXCEPT !.Status = status, !.BytesWiped = size, !.EndTime = TRUE]

\* part_009 lines 24-56
ExecuteWipeSession009 ==
    /\ pc = "start" /\ driver = "part_009"
    /\ LET method == CASE disk.Type = "SSD" -> cfg.SSDMethod
                       [] disk.Type = "HDD" -> cfg.HDDMethod
                       [] OTHER -> ""
           passes == CASE disk.Type = "SSD" -> cfg.SSDPasses
                       [] disk.Type = "HDD" -> cfg.HDDPasses
                       [] OTHER -> 0
           o == NewOperation(disk.Letter, method, passes, cfg.ChunkSize)
       IN  IF dryRun
           THEN op' = completeOperation(o, disk.FreeSize, "COMPLETED") /\ pc' = "returned"
           ELSE op' = o /\ pc' = "pass_loop"
    /\ pass' = 1
    /\ UNCHANGED <<otherVars, wipeIn, ctx, elapsed, files, ws, ex, cwf, err, hist>>

\* WipeFreeSpace of part_012 (lines 17-27): strings.TrimRight(".") is left
\* out, the letters explored carry no dot.
CleanLetter(letter) == IF HasSuffix(letter, "\\") THEN letter ELSE letter \o "\\"

\* part_012 lines 17-68
ExecuteWipeSession012 ==
    /\ pc = "start" /\ driver = "part_012"
    /\ disk' = [disk EXCEPT !.Letter = CleanLetter(@)]
    /\ LET method == IF disk.Type = "SSD" THEN cfg.SSDMethod ELSE cfg.HDDMethod
           passes == IF disk.Type = "SSD" THEN cfg.SSDPasses ELSE cfg.HDDPasses
           o == NewOperation(CleanLetter(disk.Letter), method, passes, cfg.ChunkSize)
       IN  IF dryRun
           THEN op' = completeOperation(o, disk.FreeSize, "COMPLETED") /\ pc' = "returned"
           ELSE \/ \E e \in {OsNotReady, OsAccessDenied} :     \* os.MkdirAll(testDir) fails
                     /\ op' = [o EXCEPT !.Status = "FAILED",
                                        !.Error = Ru("Disk nedostupen dlya zapisi: ")
                                            \o PathError("mkdir", o.Disk \o ".wipedisk_test", e)]
                     /\ pc' = "returned"
                \/ op' = o /\ pc' = "pass_loop"
    /\ pass' = 1
    /\ UNCHANGED <<otherVars, driver, cfg, dryRun, maxDuration, volume,
                   ctx, elapsed, files, ws, ex, cwf, err, hist>>

\* Head of the pass loop: NewWipeSession and the start of Execute
\* (part_009 57-73, part_012 69-82, engine.go 448-455).
PassLoop ==
    /\ pc = "pass_loop"
    /\ UNCHANGED <<otherVars, wipeIn, ctx, files, op, pass, cwf, err>>
    /\ IF pass <= op.Passes
       THEN /\ ws' = NewWipeSession(disk.Letter, disk.Type, disk.FreeSize,
                                    cfg.MaxSpeedMBps, cfg.FileDelayMs, maxDuration)
            /\ elapsed' = FALSE
            /\ ex' = [fileIndex |-> 1, previousFreeSpace |-> disk.FreeSize, stuckCounter |-> 0]
            /\ hist' = [hist EXCEPT !.cause = "none", !.created = {}, !.done = {},
                                    !.sessAccepted = 0, !.removeFailed = FALSE]
            /\ pc' = "exec_loop"
       ELSE /\ pc' = "finish"
            /\ UNCHANGED <<ws, elapsed, ex, hist>>

\* part_009 lines 78-105
HandlePassResult009 ==
    /\ pc = "handle" /\ driver = "part_009"
    /\ UNCHANGED <<otherVars, wipeIn, ctx, elapsed, files, ws, ex, cwf, err, hist>>
    /\ IF err # ""
       THEN /\ UNCHANGED pass
            /\ IF Contains(err, Ru("dostignut limit vremeni"))
               THEN op' = [op EXCEPT !.Status = "PARTIAL", !.Warning = err] /\ pc' = "finish"
               ELSE IF Contains(err, Ru("operaciya otmenena"))
               THEN op' = [op EXCEPT !.Status = "CANCELLED", !.Warning = err] /\ pc' = "finish"
               ELSE op' = [op EXCEPT !.Status = "FAILED", !.Error = err] /\ pc' = "returned"
       ELSE /\ op' = [op EXCEPT !.BytesWiped = @ + disk.FreeSize]
            /\ pass' = pass + 1
            /\ pc' = "pass_loop"

\* part_009 lines 107-123 (performTrim only logs; the speed is not modelled)
Finish009 ==
    /\ pc = "finish" /\ driver = "part_009"
    /\ op' = [op EXCEPT !.Status = "COMPLETED", !.EndTime = TRUE]
    /\ pc' = "returned"
    /\ UNCHANGED <<otherVars, wipeIn, ctx, elapsed, files, pass, ws, ex, cwf, err, hist>>

\* part_012 lines 114-126
handleWipeError(o, errStr) ==
    IF Contains(errStr, "limit") \/ Contains(errStr, "timeout")
    THEN [o EXCEPT !.Status = "PARTIAL", !.Warning = Ru("Prevysheno vremya vypolneniya")]
    ELSE IF Contains(errStr, "cancel")
    THEN [o EXCEPT !.Status = "CANCELLED"]
    ELSE [o EXCEPT !.Status = "FAILED", !.Error = errStr]

\* part_012 lines 85-92
HandlePassResult012 ==
    /\ pc = "handle" /\ driver = "part_012"
    /\ UNCHANGED <<otherVars, wipeIn, ctx, elapsed, files, ws, ex, cwf, err, hist>>
    /\ LET o == IF err # "" THEN handleWipeError(op, err) ELSE op
       IN  IF err # "" /\ o.Status \in {"FAILED", "CANCELLED"}
           THEN op' = o /\ pc' = "finish" /\ UNCHANGED pass
           ELSE /\ op' = [o EXCEPT !.BytesWiped = @ + disk.FreeSize]
                /\ pass' = pass + 1
                /\ pc' = "pass_loop"

\* part_012 lines 94-102 (performTrim only logs; the speed is not modelled)
Finish012 ==
    /\ pc = "finish" /\ driver = "part_012"
    /\ op' = [op EXCEPT !.EndTime = TRUE]
    /\ pc' = "returned"
    /\ UNCHANGED <<otherVars, wipeIn, ctx, elapsed, files, pass, ws, ex, cwf, err, hist>>

(***************************************************************************)
(* The environment of a wipe: the context and the clock.                   *)
(***************************************************************************)
Running == pc \notin {"start", "returned", "s_engine", "s_start", "s_returned"}

\* cancel() of the caller (a signal, the user)
Cancel ==
    /\ Running /\ ctx = "active"
    /\ ctx' = "canceled"
    /\ UNCHANGED <<otherVars, wipeIn, elapsed, files, op, pass, ws, ex, cwf, err, pc, hist>>

\* the deadline of the caller's context passes
DeadlineExceeded ==
    /\ Running /\ ctx = "active"
    /\ ctx' = "deadline"
    /\ UNCHANGED <<otherVars, wipeIn, elapsed, files, op, pass, ws, ex, cwf, err, pc, hist>>

InSession == pc \in {"exec_loop", "cwf_begin", "cwf_loop", "tw_sleep", "tw_write",
                     "cwf_sync", "exec_after", "exec_delay"}

\* the session has run longer than ws.MaxDuration
MaxDurationElapses ==
    /\ InSession /\ maxDuration > 0 /\ ~elapsed
    /\ elapsed' = TRUE
    /\ UNCHANGED <<otherVars, wipeIn, ctx, files, op, pass, ws, ex, cwf, err, pc, hist>>

(***************************************************************************)
(* Specification of a free-space wipe through WipeSession.                 *)
(***************************************************************************)
DiskTypes == {"HDD", "SSD", "Unknown"}
FreeSizes == {0, 1 * GiB} \cup {k * GiB + 512 * MiB : k \in 1..MaxFreeGiB}

\* cfg.Wipe: passes per storage class, with the pacing of the "balanced"
\* profile (profiles.go 16-21) and of the "aggressive" one (22-27).
Configs ==
    { [ SSDMethod |-> "cipher", HDDMethod |-> "random", ChunkSize |-> 4 * MiB,
        SSDPasses |-> 1, HDDPasses |-> MaxPasses,
        MaxSpeedMBps |-> 25, FileDelayMs |-> 200, MaxDuration |-> 120 ],
      [ SSDMethod |-> "cipher", HDDMethod |-> "random", ChunkSize |-> 4 * MiB,
        SSDPasses |-> MaxPasses, HDDPasses |-> 1,
        MaxSpeedMBps |-> 0, FileDelayMs |-> 0, MaxDuration |-> 0 ] }

\* The devices explored.  A sound one takes nothing, less than a chunk,
\* half of the estimate or all of it; a faulty one fails the first write,
\* or a write in the middle of a chunk.
BadSpot == 101

SoundVolume(freeSize) == [capacity |-> freeSize, badAt |-> -1, badErr |-> ""]

Volumes(freeSize) ==
    {[capacity |-> c, badAt |-> -1, badErr |-> ""]
        : c \in {0, 1 * MiB, freeSize \div 2, freeSize}}
    \cup {[capacity |-> freeSize, badAt |-> 0, badErr |-> OsNotReady],
          [capacity |-> freeSize, badAt |-> BadSpot, badErr |-> OsAccessDenied]}

NoHistory ==
    [cause |-> "none", causes |-> {}, created |-> {}, done |-> {},
     sessAccepted |-> 0, opAccepted |-> 0, removeFailed |-> FALSE,
     engine |-> "", requested |-> "", started |-> << >>, passed |-> {},
     patterns |-> {}, reused |-> FALSE]

NoCli ==
    cli = [ pc |-> "idle", drives |-> << >>, windir |-> "", excluded |-> << >>, args |-> << >>,
            allowSystemDisk |-> FALSE, dryRun |-> FALSE,
            disks |-> << >>, targetDisks |-> << >>, i |-> 0,
            freeSize |-> 0, profile |-> "",
            hasErrors |-> FALSE, operations |-> << >>, started |-> {},
            policy |-> {}, artifacts |-> {} ]

NoVerifier ==
    vr = [ pc |-> "idle", level |-> "", maxAttempts |-> 0, readBufferSize |-> 0,
           diskFound |-> FALSE, freeLess |-> FALSE, fast |-> FALSE, writeFails |-> FALSE,
           device |-> "", ctx |-> "active", attempt |-> 0, err |-> "",
           RecoveryAttempts |-> 0, RecoveredData |-> 0, Anomalies |-> << >>,
           SuccessRate |-> 0, Compliance |-> << >>, WipeVerified |-> FALSE ]

NoPlan ==
    mo = [ pc |-> "idle", phases |-> << >>, parallel |-> FALSE, silent |-> FALSE,
           outcome |-> << >>, k |-> 0, task |-> << >>, closer |-> "none",
           worker |-> "none", i |-> 0,
           ch |-> << >>, closed |-> FALSE, panicked |-> FALSE, started |-> << >>,
           PhaseResults |-> << >>, SuccessCount |-> 0, FailureCount |-> 0,
           Status |-> "" ]

NoProgress ==
    pw = [ pc |-> "idle", impl |-> "", consumer |-> FALSE, free |-> 0,
           ctxDone |-> FALSE, ch |-> 0, written |-> 0, sent |-> 0, dropped |-> 0,
           Cancelled |-> FALSE, Success |-> FALSE, err |-> "" ]

NoWriter ==
    tw = [ closed |-> FALSE, fileClosed |-> FALSE, mu |-> 0, call |-> << >>,
           calls |-> 0, lastWrite |-> 0, fileCloses |-> 0, touched |-> {},
           returned |-> {} ]

NoPool ==
    bp = [ pools |-> {}, items |-> << >>, mem |-> << >>, owner |-> << >>,
           filled |-> {} ]

NoThrottle ==
    th = [ pc |-> "idle", maxSpeedMBps |-> 0, clock |-> 0, lastWrite |-> 0, now |-> 0,
           len |-> 0, wake |-> 0, writes |-> 0, issuedAt |-> 0, previous |-> 0,
           slept |-> FALSE ]

NoPhase ==
    ph = [ pc |-> "idle", dryRun |-> FALSE, getErr |-> FALSE, disks |-> << >>, i |-> 0,
           totalWiped |-> 0, ops |-> << >>, err |-> "", Status |-> "" ]

NoExt == NoPlan /\ NoProgress /\ NoWriter /\ NoPool /\ NoThrottle /\ NoPhase

\* no wipe in progress
NoWipe ==
    /\ cfg \in {c \in Configs : c.MaxDuration = 0}
    /\ disk = [Letter |-> "", Type |-> "", FreeSize |-> 0]
    /\ dryRun = FALSE
    /\ maxDuration = 0
    /\ volume = SoundVolume(0)
    /\ ctx = "active"
    /\ elapsed = FALSE
    /\ files = [f \in {} |-> 0]
    /\ op = NoOperation
    /\ pass = 0
    /\ ws = NoSession
    /\ ex = [fileIndex |-> 0, previousFreeSpace |-> 0, stuckCounter |-> 0]
    /\ cwf = [filename |-> "", fileSize |-> 0, written |-> 0, toWrite |-> 0, off |-> 0]
    /\ err = ""
    /\ hist = NoHistory

NoStrategy ==
    /\ mode = ""
    /\ profile = ""
    /\ wipeConfig = [Passes |-> 0, MaxSpeedMBps |-> 0, MaxDuration |-> 0]
    /\ sp = [freeSpace |-> 0, fileIndex |-> 0]
    /\ clf = [filename |-> "", fileSize |-> 0, written |-> 0, lastSync |-> 0,
              toWrite |-> 0, off |-> 0, pattern |-> "", fresh |-> FALSE]

InitWipe ==
    /\ driver \in {"part_009", "part_012"}
    /\ disk \in [Letter : {"D:"}, Type : DiskTypes, FreeSize : FreeSizes]
    /\ cfg \in Configs
    /\ dryRun \in BOOLEAN
    /\ maxDuration = cfg.MaxDuration
    /\ volume \in (IF dryRun \/ disk.FreeSize <= minThreshold
                    THEN {SoundVolume(disk.FreeSize)} ELSE Volumes(disk.FreeSize))
    /\ ctx = "active"
    /\ elapsed = FALSE
    /\ files = [f \in {} |-> 0]
    /\ op = NoOperation
    /\ pass = 0
    /\ ws = NoSession
    /\ ex = [fileIndex |-> 0, previousFreeSpace |-> 0, stuckCounter |-> 0]
    /\ cwf = [filename |-> "", fileSize |-> 0, written |-> 0, toWrite |-> 0, off |-> 0]
    /\ err = ""
    /\ pc = "start"
    /\ hist = NoHistory
    /\ NoStrategy
    /\ NoCli
    /\ NoVerifier
    /\ NoExt

NextWipe ==
    \/ ExecuteWipeSession009
    \/ ExecuteWipeSession012
    \/ PassLoop
    \/ ExecuteLoop
    \/ CreateWipeFileBegin
    \/ CreateWipeFileChunk
    \/ ThrottledWriterSleep
    \/ ThrottledWriterWrite
    \/ CreateWipeFileSync
    \/ ExecuteAfterCreate
    \/ ExecuteDelay
    \/ Cleanup
    \/ HandlePassResult009
    \/ HandlePassResult012
    \/ Finish009
    \/ Finish012
    \/ Cancel
    \/ DeadlineExceeded
    \/ MaxDurationElapses

SpecWipe == InitWipe /\ [][NextWipe]_vars

(***************************************************************************)
(* One call of WipeSession.Execute on a new session (engine.go 448-558).   *)
(***************************************************************************)
ExecuteFreeSizes == {0, 1 * GiB} \cup {k * GiB + 512 * MiB : k \in 0..MaxTurns}

\* NewWipeSession and the locals of Execute before its loop (engine.go 448-455)
InitExecute ==
    /\ driver = "part_012"
    /\ disk \in [Letter : {"D:"}, Type : DiskTypes, FreeSize : ExecuteFreeSizes]
    /\ cfg \in Configs
    /\ dryRun = FALSE
    /\ maxDuration = cfg.MaxDuration
    /\ volume \in {SoundVolume(disk.FreeSize),
                   [capacity |-> disk.FreeSize \div 2, badAt |-> -1, badErr |-> ""]}
    /\ ctx = "active"
    /\ elapsed = FALSE
    /\ files = [f \in {} |-> 0]
    /\ op = NoOperation
    /\ pass = 1
    /\ ws = NewWipeSession(disk.Letter, disk.Type, disk.FreeSize,
                           cfg.MaxSpeedMBps, cfg.FileDelayMs, maxDuration)
    /\ ex = [fileIndex |-> 1, previousFreeSpace |-> disk.FreeSize, stuckCounter |-> 0]
    /\ cwf = [filename |-> "", fileSize |-> 0, written |-> 0, toWrite |-> 0, off |-> 0]
    /\ err = ""
    /\ pc = "exec_loop"
    /\ hist = NoHistory
    /\ NoStrategy
    /\ NoCli
    /\ NoVerifier
    /\ NoExt

\* the steps of the goroutine that runs Execute, but for ExecuteAfterCreate
ExecuteSteps ==
    \/ ExecuteLoop
    \/ CreateWipeFileBegin
    \/ CreateWipeFileChunk
    \/ ThrottledWriterSleep
    \/ ThrottledWriterWrite
    \/ CreateWipeFileSync
    \/ ExecuteDelay

NextExecute ==
    \/ ExecuteSteps
    \/ ExecuteAfterCreate
    \/ Cancel
    \/ DeadlineExceeded
    \/ MaxDurationElapses

\* WF_vars(ExecuteAfterCreate), written out: the action is enabled exactly
\* when pc = "exec_after", and every step of it changes pc.
ExecuteAfterCreateFair ==
    \/ []<>(pc # "exec_after")
    \/ []<><<ExecuteAfterCreate>>_vars

\* The goroutine is scheduled, and its file operations and pauses return.
SpecExecute ==
    InitExecute /\ [][NextExecute]_vars /\ WF_vars(ExecuteSteps) /\ ExecuteAfterCreateFair

(***************************************************************************)
(* Wipe with a strategy (internal/wipe/strategy.go, strategy_engine.go).   *)
(***************************************************************************)
ModeStandard == "standard"
ModeSDelete  == "sdelete"
ModeCipher   == "cipher"

\* a strategy with one file size for every profile and disk
StandardGetFileSizeDefault(diskType, prof) == 2 * GiB

\* StandardStrategy.GetFileSize
StandardGetFileSize(diskType, prof) ==
    CASE prof = "safe"       -> IF diskType = "SSD" THEN 2 * GiB ELSE 1 * GiB
      [] prof = "balanced"   -> IF diskType = "SSD" THEN 4 * GiB ELSE 2 * GiB
      [] prof = "aggressive" -> IF diskType = "SSD" THEN 8 * GiB ELSE 4 * GiB
      [] prof = "fast"       -> IF diskType = "SSD" THEN 16 * GiB ELSE 8 * GiB
      [] prof = "sdelete"    -> IF diskType = "SSD" THEN 4 * GiB ELSE 2 * GiB
      [] OTHER               -> 2 * GiB

\* SDeleteStrategy.GetFileSize
SDeleteGetFileSize(diskType, prof) ==
    CASE prof = "safe"       -> 4 * GiB
      [] prof = "balanced"   -> 8 * GiB
      [] prof = "aggressive" -> 16 * GiB
      [] prof = "fast"       -> 16 * GiB
      [] prof = "sdelete"    -> 16 * GiB
      [] OTHER               -> 8 * GiB

\* CipherStrategy.GetFileSize
CipherGetFileSize(diskType, prof) == IF diskType = "SSD" THEN 32 * GiB ELSE 16 * GiB

\* GetStrategy(mode) and the methods of the strategy it returns
GetStrategy(m) ==
    CASE m = ModeSDelete -> "SDeleteStrategy"
      [] m = ModeCipher  -> "CipherStrategy"
      [] OTHER           -> "StandardStrategy"

GetFileSize(m, diskType, prof) ==
    CASE GetStrategy(m) = "SDeleteStrategy" -> SDeleteGetFileSize(diskType, prof)
      [] GetStrategy(m) = "CipherStrategy"  -> CipherGetFileSize(diskType, prof)
      [] OTHER                              -> StandardGetFileSize(diskType, prof)

GetSyncInterval(m) ==
    CASE GetStrategy(m) = "SDeleteStrategy" -> 1024 * MiB
      [] GetStrategy(m) = "CipherStrategy"  -> 2048 * MiB
      [] OTHER                              -> 512 * MiB

GetMinFreeSpace(m) ==
    CASE GetStrategy(m) = "SDeleteStrategy" -> 50 * MiB
      [] GetStrategy(m) = "CipherStrategy"  -> 10 * MiB
      [] OTHER                              -> 100 * MiB

GetMaxFiles(m) ==
    CASE GetStrategy(m) = "SDeleteStrategy" -> 100
      [] GetStrategy(m) = "CipherStrategy"  -> 50
      [] OTHER                              -> 1000

\* CipherPass.String()
CipherPassString(p) ==
    CASE p = 0 -> "zero" [] p = 1 -> "0xFF" [] p = 2 -> "random" [] OTHER -> "unknown"

getPassesForMode(c, m) ==
    CASE m = ModeCipher  -> 3
      [] m = ModeSDelete -> 1
      [] OTHER           -> c.SSDPasses

EngineInternal      == "internal"
EngineSDeleteCompat == "sdelete-compatible"
EngineCipher        == "cipher"
Engines == {EngineInternal, EngineSDeleteCompat, EngineCipher}

\* a pattern that is random in every pass
CipherPatternAllRandom(p) == "random"

\* the bytes CipherPattern(pass, size) returns (strategy.go 196-215)
CipherPattern(p) ==
    CASE p = 0 -> "0x00" [] p = 1 -> "0xFF" [] p = 2 -> "random" [] OTHER -> "error"

\* WipeWithEngine (engine.go 79-93): the cipher engine runs cipher.exe, the
\* sdelete-compatible engine replaces the mode by sdelete, the internal
\* engine keeps the mode
WipeWithEngine(engine) ==
    /\ pc = "s_engine"
    /\ hist' = [hist EXCEPT !.engine = engine, !.requested = mode]
    /\ mode' = IF engine = EngineSDeleteCompat THEN ModeSDelete ELSE mode
    /\ pc' = IF engine = EngineCipher THEN "s_cipher" ELSE "s_start"
    /\ UNCHANGED <<sessionVars, disk, ctx, files, op, pass, err, profile, wipeConfig, sp, clf>>

\* strategy_engine.go 14-41, strategy.go 218-235
WipeWithStrategy ==
    /\ pc = "s_start"
    /\ LET wc == [Passes |-> getPassesForMode(cfg, mode),
                  MaxSpeedMBps |-> cfg.MaxSpeedMBps, MaxDuration |-> maxDuration]
           o  == NewOperation(disk.Letter, mode, wc.Passes, GetFileSize(mode, disk.Type, profile))
       IN  /\ wipeConfig' = wc
           /\ IF dryRun
              THEN op' = completeOperation(o, disk.FreeSize, "COMPLETED") /\ pc' = "s_returned"
              ELSE op' = o /\ pc' = "s_pass"
    /\ pass' = 0
    /\ UNCHANGED <<sessionVars, disk, ctx, files, err, hist, mode, profile, sp, clf>>

\* The passes a run makes: cfg.Passes, 3 in cipher mode (strategy.go 232-235).
StrategyPasses == IF mode = ModeCipher THEN 3 ELSE wipeConfig.Passes

\* op after a pass was interrupted by the context (strategy.go 241-247, 264-271)
Interrupted(o) ==
    IF ctx = "deadline"
    THEN [o EXCEPT !.Status = "PARTIAL", !.Warning = Ru("Operaciya prervana po taymautu")]
    ELSE [o EXCEPT !.Status = "CANCELLED", !.Warning = Ru("Operaciya otmenena polzovatelem")]

\* wipeWithCipher (engine.go 96-243): the operation it returns.  cipher.exe
\* is missing or fails, is stopped by the context, or ends without error.
WipeWithCipher ==
    /\ pc = "s_cipher"
    /\ LET o == NewOperation(disk.Letter, "cipher", 1, 0)
       IN  IF dryRun
           THEN op' = completeOperation(o, disk.FreeSize, "COMPLETED")
           ELSE \/ op' = [o EXCEPT !.Status = "FAILED", !.EndTime = TRUE,
                                   !.Error = "cipher.exe"]
                \/ /\ ctx # "active"
                   /\ op' = Interrupted(o)
                \/ /\ ctx = "active"
                   /\ op' = completeOperation(o, disk.FreeSize, "COMPLETED")
    /\ pc' = "s_returned"
    /\ UNCHANGED <<sessionVars, disk, ctx, files, pass, err, hist, strategyVars>>

\* Head of the pass loop of ExecuteWipeWithStrategy (strategy.go 237-261,
\* 280-290) and of execute*Pass (294-301, 340-347).
StrategyPassLoop ==
    /\ pc = "s_pass"
    /\ UNCHANGED <<sessionVars, disk, ctx, files, pass, mode, profile, wipeConfig, clf>>
    /\ IF pass < StrategyPasses
       THEN IF ctx # "active"
            THEN /\ op' = Interrupted(op)
                 /\ err' = Ru("operaciya prervana")
                 /\ pc' = "s_wrap"
                 /\ UNCHANGED <<sp, hist>>
            ELSE /\ sp' = [freeSpace |-> disk.FreeSize, fileIndex |-> 0]
                 /\ hist' = [hist EXCEPT !.cause = "none", !.started = Append(@, pass)]
                 /\ pc' = "s_loop"
                 /\ UNCHANGED <<op, err>>
       ELSE /\ op' = completeOperation(op, disk.FreeSize, "COMPLETED")
            /\ pc' = "s_returned"
            /\ UNCHANGED <<sp, err, hist>>

\* execute*Pass returns e
PassReturns(e, cause) ==
    /\ err' = e
    /\ hist' = [hist EXCEPT !.cause = cause, !.causes = @ \cup {cause}]
    /\ pc' = "s_pass_end"

StrategyFileName(letter, fileIndex, m, p) ==
    IF m = ModeCipher
    THEN letter \o "cipher_" \o Sprintf03d(fileIndex) \o "_" \o CipherPassString(p) \o ".tmp"
    ELSE letter \o "wipe_" \o Sprintf03d(fileIndex) \o ".tmp"

MinArtifactSize == 64 * MiB

\* One turn of the file loop of executeStandardPass (303-323) and
\* executeCipherPass (349-369).
StrategyPassTurn ==
    /\ pc = "s_loop"
    /\ UNCHANGED <<sessionVars, disk, ctx, files, op, pass, mode, profile, wipeConfig, sp>>
    /\ LET minFreeSpace == GetMinFreeSpace(mode)
           fileSize     == GetFileSize(mode, disk.Type, profile)
           current      == IF sp.freeSpace < fileSize THEN sp.freeSpace - minFreeSpace
                           ELSE fileSize
       IN  IF ~(sp.freeSpace > minFreeSpace /\ sp.fileIndex < GetMaxFiles(mode))
           THEN PassReturns("", "exhausted") /\ UNCHANGED clf
           ELSE IF ctx # "active"
           THEN PassReturns(ErrCancelledRu, CtxDoneCause) /\ UNCHANGED clf
           ELSE IF sp.freeSpace < fileSize /\ current < MinArtifactSize
           THEN PassReturns("", "exhausted") /\ UNCHANGED clf
           ELSE /\ clf' = [ filename |-> StrategyFileName(disk.Letter, sp.fileIndex, mode, pass),
                            fileSize |-> current, written |-> 0, lastSync |-> 0,
                            toWrite  |-> 0, off |-> 0, fresh |-> FALSE,
                            pattern  |-> IF mode = ModeCipher THEN CipherPassString(pass)
                                         ELSE "random" ]
                /\ pc' = "clf_create"
                /\ UNCHANGED <<err, hist>>

\* createLargeFile / createCipherFile returns e
CreateLargeFileReturns(e, cause) ==
    /\ err' = e
    /\ hist' = [hist EXCEPT !.cause = cause]
    /\ pc' = "s_after"

\* os.Create, and in createLargeFile the one rand.Read(buf) of the file
\* (strategy.go 387-402, 456-460).  clf.fresh: the bytes of the chunk buffer
\* were drawn and have not been written yet.
CreateLargeFileOpen ==
    /\ pc = "clf_create"
    /\ UNCHANGED <<sessionVars, disk, ctx, op, pass, mode, profile, wipeConfig, sp>>
    /\ \/ \E e \in OsErrors :
            /\ CreateLargeFileReturns(PathError("open", clf.filename, e), OsErrorCause(e))
            /\ UNCHANGED <<files, clf>>
       \/ /\ files' = [f \in DOMAIN files \cup {clf.filename} |->
                          IF f = clf.filename THEN 0 ELSE files[f]]
          /\ clf' = [clf EXCEPT !.fresh = (mode # ModeCipher)]
          /\ hist' = [hist EXCEPT !.created = @ \cup {clf.filename}]
          /\ pc' = "clf_loop"
          /\ UNCHANGED err

LargeChunkSize == 16 * MiB

\* Head of the chunk loop, in createCipherFile the CipherPattern of the
\* chunk, and ThrottledWriter.Write up to its pacing decision
\* (strategy.go 406-423, 470-493; throttled_writer.go 30-52).
CreateLargeFileChunk ==
    /\ pc = "clf_loop"
    /\ UNCHANGED <<sessionVars, disk, ctx, files, op, pass, mode, profile, wipeConfig, sp>>
    /\ IF clf.written < clf.fileSize
       THEN IF ctx # "active"
            THEN CreateLargeFileReturns(ErrCancelledRu, CtxDoneCause) /\ UNCHANGED clf
            ELSE /\ clf' = [clf EXCEPT !.toWrite = Min(LargeChunkSize, clf.fileSize - clf.written),
                                       !.off = 0,
                                       !.fresh = IF mode = ModeCipher
                                                 THEN CipherPattern(pass) = "random" ELSE @]
                 /\ \/ pc' = "clf_write"
                    \/ wipeConfig.MaxSpeedMBps > 0 /\ pc' = "clf_sleep"
                 /\ UNCHANGED <<err, hist>>
       ELSE /\ pc' = "clf_sync"
            /\ UNCHANGED <<clf, err, hist>>

\* time.Sleep(expected - actual) returns (throttled_writer.go 48-50).
CreateLargeFileSleep ==
    /\ pc = "clf_sleep"
    /\ pc' = "clf_write"
    /\ UNCHANGED <<sessionVars, disk, ctx, files, op, pass, strategyVars, err, hist>>

\* what a write of n bytes puts on the disk: the pass and the bytes of the
\* chunk (strategy.go 398-402 random data, 482-486 CipherPattern)
Written(n) ==
    IF n <= 0 THEN {}
    ELSE {<<pass, IF mode = ModeCipher THEN CipherPattern(pass) ELSE "random">>}

\* random bytes that were already written are written again
Reuses(n) ==
    /\ n > 0
    /\ ~clf.fresh
    /\ \E w \in Written(n) : w[2] = "random"

\* tw.file.Write and the rest of the inner loop (strategy.go 421-435, 488-502).
CreateLargeFileWrite ==
    /\ pc = "clf_write"
    /\ UNCHANGED <<sessionVars, disk, ctx, op, pass, mode, profile, wipeConfig, sp>>
    /\ \E out \in FileWriteOutcomes(clf.toWrite - clf.off) :
         LET n == out[1]
             e == out[2]
             c == CountWritten(n)
         IN  /\ files' = [files EXCEPT ![clf.filename] = @ + n]
             /\ clf' = [clf EXCEPT !.off = @ + c, !.written = @ + c,
                                   !.fresh = @ /\ clf.off + c < clf.toWrite]
             /\ IF e # ""
                THEN /\ err' = Ru("oshibka zapisi: ") \o PathError("write", clf.filename, e)
                     /\ pc' = "s_after"
                     /\ hist' = [hist EXCEPT !.cause = OsErrorCause(e), !.opAccepted = @ + n,
                                             !.patterns = @ \cup Written(n),
                                             !.reused = @ \/ Reuses(n)]
                ELSE /\ hist' = [hist EXCEPT !.opAccepted = @ + n,
                                             !.patterns = @ \cup Written(n),
                                             !.reused = @ \/ Reuses(n)]
                     /\ IF n = 0
                        THEN err' = Ru("zapis vernula 0 bayt") /\ pc' = "s_after"
                        ELSE /\ err' = err
                             /\ pc' = IF clf.off + c < clf.toWrite THEN "clf_write"
                                      ELSE IF clf.written + c - clf.lastSync >= GetSyncInterval(mode)
                                      THEN "clf_psync"
                                      ELSE "clf_loop"

\* The periodic file.Sync() (strategy.go 437-443, 504-510).
CreateLargeFilePeriodicSync ==
    /\ pc = "clf_psync"
    /\ UNCHANGED <<sessionVars, disk, ctx, files, op, pass, mode, profile, wipeConfig, sp>>
    /\ \/ \E e \in {OsNotReady} :
            /\ CreateLargeFileReturns(Ru("oshibka sinhronizacii: ")
                                          \o PathError("sync", clf.filename, e), OsErrorCause(e))
            /\ UNCHANGED clf
       \/ /\ clf' = [clf EXCEPT !.lastSync = clf.written]
          /\ pc' = "clf_loop"
          /\ UNCHANGED <<err, hist>>

\* The final file.Sync() (strategy.go 446-451, 513-518).
CreateLargeFileFinalSync ==
    /\ pc = "clf_sync"
    /\ UNCHANGED <<sessionVars, disk, ctx, files, op, pass, strategyVars>>
    /\ \/ \E e \in {OsNotReady} :
            CreateLargeFileReturns(Ru("oshibka finalnoy sinhronizacii: ")
                                       \o PathError("sync", clf.filename, e), OsErrorCause(e))
       \/ /\ err' = ""
          /\ pc' = "s_after"
          /\ hist' = [hist EXCEPT !.done = @ \cup {clf.filename}]

\* execute*Pass after the file was written (strategy.go 324-336, 370-382).
StrategyAfterFile ==
    /\ pc = "s_after"
    /\ UNCHANGED <<sessionVars, disk, ctx, op, pass, mode, profile, wipeConfig, clf>>
    /\ IF err # ""
       THEN /\ PassReturns((IF mode = ModeCipher THEN Ru("oshibka sozdaniya cipher fayla ")
                            ELSE Ru("oshibka sozdaniya fayla "))
                               \o clf.filename \o ": " \o err, hist.cause)
            /\ UNCHANGED <<files, sp>>
       ELSE /\ \E removed \in BOOLEAN :
                 /\ files' = IF removed THEN [f \in DOMAIN files \ {clf.filename} |-> files[f]]
                             ELSE files
                 /\ hist' = [hist EXCEPT !.removeFailed = @ \/ ~removed]
            /\ sp' = [sp EXCEPT !.freeSpace = @ - clf.fileSize, !.fileIndex = @ + 1]
            /\ pc' = "s_loop"
            /\ UNCHANGED err

\* ExecuteWipeWithStrategy after a pass (strategy.go 263-278).
StrategyPassEnd ==
    /\ pc = "s_pass_end"
    /\ UNCHANGED <<sessionVars, disk, ctx, files, err, strategyVars>>
    /\ IF err # ""
       THEN /\ op' = IF ctx # "active" THEN Interrupted(op)
                     ELSE [op EXCEPT !.Status = "FAILED", !.Error = err]
            /\ pc' = "s_wrap"
            /\ UNCHANGED <<pass, hist>>
       ELSE /\ pass' = pass + 1
            /\ hist' = [hist EXCEPT !.passed = @ \cup {pass}]
            /\ pc' = "s_pass"
            /\ UNCHANGED op

\* wipeWithStrategy after an error of ExecuteWipeWithStrategy (strategy_engine.go 45-58).
WipeWithStrategyFails ==
    /\ pc = "s_wrap"
    /\ op' = [op EXCEPT !.EndTime = TRUE]
    /\ pc' = "s_returned"
    /\ UNCHANGED <<sessionVars, disk, ctx, files, pass, err, hist, strategyVars>>

StrategyModes    == {ModeStandard, ModeSDelete, ModeCipher}
StrategyProfiles == {"safe", "fast"}
SmallFree        == 150 * MiB
StrategyFreeSizes == {0, SmallFree} \cup {k * GiB + 512 * MiB : k \in 1..MaxFreeGiB}

InitStrategy ==
    /\ driver = "strategy"
    /\ mode \in StrategyModes
    /\ profile \in StrategyProfiles
    /\ disk \in [Letter : {"D:\\"}, Type : {"HDD", "SSD"}, FreeSize : StrategyFreeSizes]
    /\ cfg \in Configs
    /\ dryRun \in BOOLEAN
    /\ maxDuration = cfg.MaxDuration
    /\ volume \in (IF dryRun \/ disk.FreeSize < GiB
                    THEN {SoundVolume(disk.FreeSize)} ELSE Volumes(disk.FreeSize))
    /\ ctx = "active"
    /\ elapsed = FALSE
    /\ files = [f \in {} |-> 0]
    /\ op = NoOperation
    /\ pass = 0
    /\ ws = NoSession
    /\ ex = [fileIndex |-> 0, previousFreeSpace |-> 0, stuckCounter |-> 0]
    /\ cwf = [filename |-> "", fileSize |-> 0, written |-> 0, toWrite |-> 0, off |-> 0]
    /\ err = ""
    /\ pc = "s_engine"
    /\ hist = NoHistory
    /\ wipeConfig = [Passes |-> 0, MaxSpeedMBps |-> 0, MaxDuration |-> 0]
    /\ sp = [freeSpace |-> 0, fileIndex |-> 0]
    /\ clf = [filename |-> "", fileSize |-> 0, written |-> 0, lastSync |-> 0,
              toWrite |-> 0, off |-> 0, pattern |-> "", fresh |-> FALSE]
    /\ NoCli
    /\ NoVerifier
    /\ NoExt

NextStrategy ==
    \/ \E engine \in Engines : WipeWithEngine(engine)
    \/ WipeWithCipher
    \/ WipeWithStrategy
    \/ StrategyPassLoop
    \/ StrategyPassTurn
    \/ CreateLargeFileOpen
    \/ CreateLargeFileChunk
    \/ CreateLargeFileSleep
    \/ CreateLargeFileWrite
    \/ CreateLargeFilePeriodicSync
    \/ CreateLargeFileFinalSync
    \/ StrategyAfterFile
    \/ StrategyPassEnd
    \/ WipeWithStrategyFails
    \/ Cancel
    \/ DeadlineExceeded

SpecStrategy == InitStrategy /\ [][NextStrategy]_vars

(***************************************************************************)
(* The `wipe` command (runWipe) and the gate of the system disk.           *)
(***************************************************************************)
\* system.isSystemDrive (disk.go 155-162)
isSystemDrive(drive, windirEnv) ==
    LET windir == IF ToUpper(windirEnv) = "" THEN "C:\\WINDOWS" ELSE ToUpper(windirEnv)
    IN  HasPrefix(windir, ToUpper(drive))

\* system.getDriveInfo (disk.go 125-152): the letter, the system flag and the
\* storage class guessed from it.
getDriveInfo(drive, windirEnv) ==
    [ Letter   |-> drive,
      IsSystem |-> isSystemDrive(drive, windirEnv),
      Type     |-> IF isSystemDrive(drive, windirEnv) THEN "SSD" ELSE "HDD" ]

InSeq(x, sq) == \E k \in 1..Len(sq) : sq[k] = x

\* security.ShouldSkipDisk (security.go 60-84), cfg.Security.ExcludedDrives = excluded
ShouldSkipDisk(excluded, d) ==
    IF InSeq(d.Letter, excluded) THEN TRUE
    ELSE IF d.IsSystem
    THEN IF Len(excluded) > 0 THEN InSeq(d.Letter, excluded) ELSE TRUE
    ELSE FALSE

\* wipe.GetDefaultSystemDiskPolicy (engine.go 578-591)
GetDefaultSystemDiskPolicy ==
    [ AllowedPaths |-> <<"%WINDIR%\\Temp", "%TEMP%", "%USERPROFILE%\\AppData\\Local\\Temp">>,
      MaxTempSizeGB |-> 2, MaxBufferMB |-> 256, MaxConcurrentIO |-> 2,
      TimeoutMinutes |-> 30, ForceWipeSSD |-> FALSE ]

\* wipe.PrepareSystemDiskWipe (engine.go 594-639): "refused", "policy" (the
\* system disk, let through under the policy) or "none" (no policy needed).
PrepareSystemDiskWipe(letter, allowSystemDisk, diskInfo) ==
    IF ~EqualFold(letter, "C:") /\ ~EqualFold(letter, "C:\\") THEN "none"
    ELSE IF ~allowSystemDisk THEN "refused"
    ELSE IF \E k \in 1..Len(diskInfo) :
                /\ EqualFold(diskInfo[k].Letter, letter)
                /\ \A j \in 1..(k - 1) : ~EqualFold(diskInfo[j].Letter, letter)
                /\ diskInfo[k].Type = "SSD"
                /\ ~GetDefaultSystemDiskPolicy.ForceWipeSSD
    THEN "refused"
    ELSE "policy"

\* The disk an argument names: the first disk whose letter matches
\* (part_006 208-217).
ArgDisk(disks, arg) ==
    LET Match(d) == EqualFold(d.Letter, arg) \/ EqualFold(d.Letter \o ":", arg)
        hits == SelectSeq(disks, Match)
    IN  IF hits = << >> THEN << >> ELSE <<Head(hits)>>

RECURSIVE ArgDisks(_, _)
ArgDisks(disks, args) ==
    IF args = << >> THEN << >>
    ELSE ArgDisk(disks, Head(args)) \o ArgDisks(disks, Tail(args))

\* runWipe: GetDiskInfo and the choice of the target disks (part_006 200-229).
RunWipeSelect ==
    /\ cli.pc = "c_start"
    /\ LET disks   == [k \in 1..Len(cli.drives) |-> getDriveInfo(cli.drives[k], cli.windir)]
           Keep(d) == ~ShouldSkipDisk(cli.excluded, d)
           targets == IF Len(cli.args) > 0
                      THEN SelectSeq(ArgDisks(disks, cli.args), Keep)
                      ELSE SelectSeq(disks, Keep)
       IN  cli' = [cli EXCEPT !.disks = disks, !.targetDisks = targets, !.i = 1,
                              !.pc = IF targets = << >> THEN "c_done" ELSE "c_gate"]
    /\ UNCHANGED <<wipeVars, strategyVars, vr, extVars>>

\* runWipe: the check of the system disk, first thing for each target disk
\* (part_006 283-295).
RunWipeGate ==
    /\ cli.pc = "c_gate"
    /\ LET d == cli.targetDisks[cli.i]
       IN  IF PrepareSystemDiskWipe(d.Letter, cli.allowSystemDisk, cli.disks) = "refused"
           THEN cli' = [cli EXCEPT !.hasErrors = TRUE, !.i = @ + 1,
                                   !.pc = IF cli.i + 1 > Len(cli.targetDisks)
                                          THEN "c_done" ELSE "c_gate"]
           ELSE cli' = [cli EXCEPT !.pc = "c_wipe",
                                   !.policy = IF PrepareSystemDiskWipe(d.Letter, cli.allowSystemDisk,
                                                                       cli.disks) = "policy"
                                              THEN @ \cup {d.Letter} ELSE @]
    /\ UNCHANGED <<wipeVars, strategyVars, vr, extVars>>

\* The first artifact of executeStandardPass in mode standard on a disk with
\* freeSize bytes free (strategy.go 295-322): none when the loop is not
\* entered or the remainder is under the minimum.
FirstArtifact(d, freeSize, prof) ==
    LET minFreeSpace == GetMinFreeSpace(ModeStandard)
        fileSize     == GetFileSize(ModeStandard, d.Type, prof)
        current      == IF freeSize < fileSize THEN freeSize - minFreeSpace ELSE fileSize
    IN  IF ~(freeSize > minFreeSpace) \/ (freeSize < fileSize /\ current < MinArtifactSize)
        THEN {}
        ELSE {[ disk |-> d.Letter,
                path |-> StrategyFileName(d.Letter, 0, ModeStandard, 0),
                size |-> current ]}

\* runWipe: wipe.WipeWithEngine on the disk (part_006 297-330); the wipe
\* itself is SpecWipe and SpecStrategy, of which the first artifact is kept
\* here.  A dry run writes nothing.
RunWipeEngine ==
    /\ cli.pc = "c_wipe"
    /\ LET d == cli.targetDisks[cli.i]
       IN  cli' = [cli EXCEPT !.operations = Append(@, d.Letter),
                              !.started = IF cli.dryRun THEN @ ELSE @ \cup {d},
                              !.artifacts = IF cli.dryRun THEN @
                                            ELSE @ \cup FirstArtifact(d, cli.freeSize, cli.profile),
                              !.i = @ + 1,
                              !.pc = IF cli.i + 1 > Len(cli.targetDisks)
                                     THEN "c_done" ELSE "c_gate"]
    /\ UNCHANGED <<wipeVars, strategyVars, vr, extVars>>

CliDrives   == <<"C:", "D:">>
CliWindirs  == {"", "C:\\Windows", "D:\\Windows"}
CliExcluded == {<< >>, <<"A:", "B:">>, <<"C:">>}
CliArgs     == {<< >>, <<"c:">>, <<"D:">>, <<"D:", "C:">>}
CliFreeSizes == {512 * MiB, 10 * GiB}
CliProfiles  == {"", "fast"}

InitCli ==
    /\ driver = "cli"
    /\ pc = "idle"
    /\ NoWipe
    /\ NoStrategy
    /\ NoVerifier
    /\ NoExt
    /\ cli \in [ pc : {"c_start"}, drives : {CliDrives}, windir : CliWindirs,
                 excluded : CliExcluded, args : CliArgs,
                 allowSystemDisk : BOOLEAN, dryRun : BOOLEAN,
                 disks : {<< >>}, targetDisks : {<< >>}, i : {0},
                 freeSize : CliFreeSizes, profile : CliProfiles,
                 hasErrors : {FALSE}, operations : {<< >>}, started : {{}},
                 policy : {{}}, artifacts : {{}} ]

NextCli ==
    \/ RunWipeSelect
    \/ RunWipeGate
    \/ RunWipeEngine

SpecCli == InitCli /\ [][NextCli]_vars

(***************************************************************************)
(* The verifier (PhysicalVerifier, part_012).  SuccessRate is kept in      *)
(* 1/1024 of a point, RecoveredData in bytes, so the rate stays integral.  *)
(***************************************************************************)
LevelBasic      == "basic"
LevelPhysical   == "physical"
LevelAggressive == "aggressive"

Point == 1024

\* NewPhysicalVerifier (part_012 195-218); readBufferSize in bytes
NewPhysicalVerifier(level) ==
    CASE level = LevelPhysical   -> [level |-> level, maxAttempts |-> 5,  readBufferSize |-> 128 * 1024]
      [] level = LevelAggressive -> [level |-> level, maxAttempts |-> 10, readBufferSize |-> 256 * 1024]
      [] OTHER                   -> [level |-> level, maxAttempts |-> 3,  readBufferSize |-> 64 * 1024]

Anomaly(type, severity) == [Type |-> type, Severity |-> severity]

RECURSIVE Penalty(_)
\* the points calculateSuccessRate takes off for the anomalies (part_012 507-517)
Penalty(anomalies) ==
    IF anomalies = << >> THEN 0
    ELSE (CASE Head(anomalies).Severity = "high"   -> 20 * Point
            [] Head(anomalies).Severity = "medium" -> 10 * Point
            [] Head(anomalies).Severity = "low"    -> 5 * Point
            [] OTHER                               -> 0)
         + Penalty(Tail(anomalies))

\* PhysicalVerifier.calculateSuccessRate (part_012 498-527)
calculateSuccessRate(v) ==
    IF v.RecoveryAttempts = 0 THEN 100 * Point
    ELSE LET rating == 100 * Point - Penalty(v.Anomalies)
         IN  IF v.RecoveredData > 0
             THEN (IF rating - v.RecoveredData < 0 THEN 0 ELSE rating - v.RecoveredData)
             ELSE rating

\* A grading that names only the strictest standard a rate meets.
determineStrictestCompliance(rate) ==
    IF rate >= 95 * Point THEN <<"DOD5220">>
    ELSE IF rate >= 90 * Point THEN <<"NIST800-88">>
    ELSE IF rate >= 85 * Point THEN <<"BSI_VSITR">>
    ELSE << >>

\* PhysicalVerifier.determineCompliance (part_012 530-546)
determineCompliance(rate) ==
    (IF rate >= 95 * Point THEN <<"DOD5220">> ELSE << >>)
        \o (IF rate >= 90 * Point THEN <<"NIST800-88">> ELSE << >>)
        \o (IF rate >= 85 * Point THEN <<"BSI_VSITR">> ELSE << >>)

\* VerifyReport up to the dispatch on the level (part_012 237-266).
VerifyReport ==
    /\ vr.pc = "v_start"
    /\ vr' = [vr EXCEPT !.RecoveryAttempts = 0, !.RecoveredData = 0, !.Anomalies = << >>,
                        !.Compliance = << >>, !.pc = "v_basic"]
    /\ UNCHANGED <<wipeVars, strategyVars, cli, extVars>>

\* performBasicVerification (part_012 298-342)
PerformBasicVerification ==
    /\ vr.pc = "v_basic"
    /\ IF ~vr.diskFound
       THEN vr' = [vr EXCEPT !.err = Ru("disk ne nayden"), !.pc = "v_finish"]
       ELSE vr' = [vr EXCEPT
                     !.Anomalies = @ \o (IF vr.freeLess
                                         THEN <<Anomaly("space_mismatch", "medium")>> ELSE << >>)
                                     \o (IF vr.fast
                                         THEN <<Anomaly("speed_anomaly", "low")>> ELSE << >>),
                     !.pc = IF vr.level = LevelBasic THEN "v_finish" ELSE "v_write"]
    /\ UNCHANGED <<wipeVars, strategyVars, cli, extVars>>

\* performPhysicalVerification: the test file (part_012 353-365)
PhysicalWriteTestFile ==
    /\ vr.pc = "v_write"
    /\ IF vr.writeFails
       THEN vr' = [vr EXCEPT !.err = Ru("oshibka zapisi testovogo fayla"), !.pc = "v_finish"]
       ELSE vr' = [vr EXCEPT !.attempt = 1, !.pc = "v_attempt"]
    /\ UNCHANGED <<wipeVars, strategyVars, cli, extVars>>

ShortReadLen == 512

\* What os.ReadFile gives at an attempt on the device explored.
ReadOutcome(device, attempt) ==
    CASE device = "flaky" -> IF attempt = 1 THEN "corruption" ELSE "match"
      [] OTHER            -> device

PhysicalDone(v) == [v EXCEPT !.pc = IF v.level = LevelAggressive THEN "v_aggressive" ELSE "v_finish"]

\* performPhysicalVerification: one turn of the attempt loop (part_012 368-420)
PhysicalAttempt ==
    /\ vr.pc = "v_attempt"
    /\ UNCHANGED <<wipeVars, strategyVars, cli, extVars>>
    /\ IF vr.attempt > vr.maxAttempts
       THEN vr' = PhysicalDone(vr)
       ELSE IF vr.ctx # "active"
       THEN vr' = [vr EXCEPT !.err = "context deadline exceeded", !.pc = "v_finish"]
       ELSE LET out == ReadOutcome(vr.device, vr.attempt)
                v1  == [vr EXCEPT !.RecoveryAttempts = @ + 1]
            IN  CASE out = "read_error" ->
                       vr' = [v1 EXCEPT !.Anomalies = Append(@, Anomaly("read_error", "high")),
                                        !.attempt = @ + 1]
                  [] out = "size_mismatch" ->
                       vr' = [v1 EXCEPT !.Anomalies = Append(@, Anomaly("size_mismatch", "high")),
                                        !.RecoveredData = @ + ShortReadLen,
                                        !.attempt = @ + 1]
                  [] OTHER ->
                       LET v2 == IF out = "corruption"
                                 THEN [v1 EXCEPT !.Anomalies =
                                                     Append(@, Anomaly("data_corruption", "high")),
                                                 !.RecoveredData = @ + 1]
                                 ELSE v1
                       IN  IF \/ Len(v2.Anomalies) = 0
                              \/ v2.Anomalies[Len(v2.Anomalies)].Severity # "high"
                           THEN vr' = PhysicalDone(v2)
                           ELSE vr' = [v2 EXCEPT !.attempt = @ + 1]

\* performAggressiveVerification after the physical one: isNTFS,
\* checkMFTIntegrity and checkFileSystemResidues find nothing (part_012 434-447)
AggressiveChecks ==
    /\ vr.pc = "v_aggressive"
    /\ vr' = [vr EXCEPT !.pc = "v_finish"]
    /\ UNCHANGED <<wipeVars, strategyVars, cli, extVars>>

\* VerifyReport after the verification returned (part_012 272-294)
VerifyReportFinish ==
    /\ vr.pc = "v_finish"
    /\ LET v1 == IF vr.err # ""
                 THEN [vr EXCEPT !.Anomalies = Append(@, Anomaly("verification_error", "high"))]
                 ELSE vr
           rate == calculateSuccessRate(v1)
       IN  vr' = [v1 EXCEPT !.SuccessRate = rate,
                            !.Compliance = determineCompliance(rate),
                            !.WipeVerified = (rate >= 95 * Point),
                            !.pc = "v_done"]
    /\ UNCHANGED <<wipeVars, strategyVars, cli, extVars>>

\* the context of the verification expires (pv.timeout) or is cancelled
VerifyContextDone ==
    /\ vr.pc \in {"v_basic", "v_write", "v_attempt"}
    /\ vr.ctx = "active"
    /\ vr' = [vr EXCEPT !.ctx = "done"]
    /\ UNCHANGED <<wipeVars, strategyVars, cli, extVars>>

VerificationLevels == {LevelBasic, LevelPhysical, LevelAggressive}
Devices == {"match", "read_error", "size_mismatch", "corruption", "flaky"}

InitVerify ==
    /\ driver = "verify"
    /\ pc = "idle"
    /\ NoWipe
    /\ NoStrategy
    /\ NoCli
    /\ NoExt
    /\ \E level \in VerificationLevels, found, less, fast, wf \in BOOLEAN, dev \in Devices :
          vr = [ pc |-> "v_start", level |-> level,
                 maxAttempts |-> NewPhysicalVerifier(level).maxAttempts,
                 readBufferSize |-> NewPhysicalVerifier(level).readBufferSize,
                 diskFound |-> found, freeLess |-> less, fast |-> fast, writeFails |-> wf,
                 device |-> dev, ctx |-> "active", attempt |-> 0, err |-> "",
                 RecoveryAttempts |-> 0, RecoveredData |-> 0, Anomalies |-> << >>,
                 SuccessRate |-> 0, Compliance |-> << >>, WipeVerified |-> FALSE ]

NextVerify ==
    \/ VerifyReport
    \/ PerformBasicVerification
    \/ PhysicalWriteTestFile
    \/ PhysicalAttempt
    \/ AggressiveChecks
    \/ VerifyReportFinish
    \/ VerifyContextDone

SpecVerify == InitVerify /\ [][NextVerify]_vars

(***************************************************************************)
(* MaintenanceOrchestrator.ExecutePlan (part_000).  The goroutines of the  *)
(* plan are processes: task[t] runs phase t in parallel mode, worker runs  *)
(* the phases one after the other in sequential mode, closer closes the    *)
(* channel in parallel mode.                                               *)
(***************************************************************************)
\* the phases a plan may list (part_000 108-115)
PlanPhases == <<"clean_temp", "clean_update_cache", "clean_browsers",
                "wipe_free_space", "optimize_disk", "verify_wipe">>

\* executePhase (part_000 262-320): COMPLETED, or FAILED when the phase
\* returned an error.
executePhase(phase, failed) ==
    [Phase |-> phase, Status |-> IF failed THEN "FAILED" ELSE "COMPLETED"]

\* capacity of resultsChan (part_000 192)
ResultsCap(phases) == Len(phases)

\* A report status that knows no PARTIAL.
ReportStatusAllOrNothing(successCount, failureCount) ==
    IF failureCount = 0 THEN "COMPLETED" ELSE "FAILED"

\* the status of the report (part_000 242-248)
ReportStatus(successCount, failureCount) ==
    IF failureCount = 0 THEN "COMPLETED"
    ELSE IF successCount > 0 THEN "PARTIAL"
    ELSE "FAILED"

\* A stop at every failure, silent plan or not.
StopsAtAnyFailure(status, silent) == status = "FAILED"

\* the sequential loop stops after this result (part_000 218)
StopsAfter(status, silent) == status = "FAILED" /\ ~silent

\* A wait that returns as soon as one task is done.
WaitGroupAnyDone(task) == \E t \in 1..Len(task) : task[t] = "done"

\* wg.Wait() returns (part_000 197, 199, 207): every task added has called Done
WaitGroupZero(task) == \A t \in 1..Len(task) : task[t] = "done"

\* ExecutePlan up to the branch on plan.Parallel (part_000 171-194)
ExecutePlan ==
    /\ mo.pc = "p_start"
    /\ mo' = [mo EXCEPT !.Status = "RUNNING", !.PhaseResults = << >>, !.ch = << >>,
                        !.k = 1,
                        !.pc = IF mo.parallel THEN "p_spawn" ELSE "p_go"]
    /\ UNCHANGED <<wipeVars, strategyVars, cli, vr, pw, tw, bp, th, ph>>

\* parallel: wg.Add(1) and the go statement of one phase (part_000 196-203)
SpawnPhase ==
    /\ mo.pc = "p_spawn"
    /\ mo.k <= Len(mo.phases)
    /\ mo' = [mo EXCEPT !.task[mo.k] = "run", !.k = @ + 1]
    /\ UNCHANGED <<wipeVars, strategyVars, cli, vr, pw, tw, bp, th, ph>>

\* parallel: the go statement of the closing goroutine (part_000 206-209)
SpawnCloser ==
    /\ mo.pc = "p_spawn"
    /\ mo.k > Len(mo.phases)
    /\ mo' = [mo EXCEPT !.closer = "wait", !.pc = "p_collect"]
    /\ UNCHANGED <<wipeVars, strategyVars, cli, vr, pw, tw, bp, th, ph>>

\* a phase task: executePhase (part_000 200)
PhaseRun(t) ==
    /\ mo.task[t] = "run"
    /\ mo' = [mo EXCEPT !.task[t] = "send", !.started = Append(@, t)]
    /\ UNCHANGED <<wipeVars, strategyVars, cli, vr, pw, tw, bp, th, ph>>

\* a phase task: resultsChan <- result (part_000 201); a send on a closed
\* channel panics, a send on a full one waits.
PhaseSend(t) ==
    /\ mo.task[t] = "send"
    /\ IF mo.closed
       THEN mo' = [mo EXCEPT !.panicked = TRUE, !.task[t] = "done"]
       ELSE /\ Len(mo.ch) < ResultsCap(mo.phases)
            /\ mo' = [mo EXCEPT !.ch = Append(@, executePhase(mo.phases[t], mo.outcome[t])),
                                !.task[t] = "sent"]
    /\ UNCHANGED <<wipeVars, strategyVars, cli, vr, pw, tw, bp, th, ph>>

\* a phase task: the deferred wg.Done() (part_000 199)
PhaseDone(t) ==
    /\ mo.task[t] = "sent"
    /\ mo' = [mo EXCEPT !.task[t] = "done"]
    /\ UNCHANGED <<wipeVars, strategyVars, cli, vr, pw, tw, bp, th, ph>>

\* the closing goroutine: wg.Wait(), close(resultsChan) (part_000 207-208)
CloserClose ==
    /\ mo.closer = "wait"
    /\ WaitGroupZero(mo.task)
    /\ mo' = [mo EXCEPT !.closed = TRUE, !.closer = "done"]
    /\ UNCHANGED <<wipeVars, strategyVars, cli, vr, pw, tw, bp, th, ph>>

\* sequential: the go statement of the worker (part_000 212)
SpawnWorker ==
    /\ mo.pc = "p_go"
    /\ mo' = [mo EXCEPT !.i = 1, !.pc = "p_collect",
                        !.worker = IF Len(mo.phases) = 0 THEN "close" ELSE "run"]
    /\ UNCHANGED <<wipeVars, strategyVars, cli, vr, pw, tw, bp, th, ph>>

\* the worker: executePhase of the next phase (part_000 213-214)
WorkerRun ==
    /\ mo.worker = "run"
    /\ mo' = [mo EXCEPT !.worker = "send", !.started = Append(@, mo.i)]
    /\ UNCHANGED <<wipeVars, strategyVars, cli, vr, pw, tw, bp, th, ph>>

\* the worker: resultsChan <- result, and the break on a failure
\* (part_000 215-222)
WorkerSend ==
    /\ mo.worker = "send"
    /\ Len(mo.ch) < ResultsCap(mo.phases)
    /\ LET result == executePhase(mo.phases[mo.i], mo.outcome[mo.i])
       IN  mo' = [mo EXCEPT !.ch = Append(@, result),
                            !.i = @ + 1,
                            !.worker = IF StopsAfter(result.Status, mo.silent)
                                          \/ mo.i + 1 > Len(mo.phases)
                                       THEN "close" ELSE "run"]
    /\ UNCHANGED <<wipeVars, strategyVars, cli, vr, pw, tw, bp, th, ph>>

\* the worker: close(resultsChan) (part_000 223)
WorkerClose ==
    /\ mo.worker = "close"
    /\ mo' = [mo EXCEPT !.closed = TRUE, !.worker = "done"]
    /\ UNCHANGED <<wipeVars, strategyVars, cli, vr, pw, tw, bp, th, ph>>

\* ExecutePlan: one turn of `for result := range resultsChan` (part_000 228-236)
Collect ==
    /\ mo.pc = "p_collect"
    /\ mo.ch # << >>
    /\ LET result == Head(mo.ch)
       IN  mo' = [mo EXCEPT !.ch = Tail(@),
                            !.PhaseResults = Append(@, result),
                            !.SuccessCount = IF result.Status = "COMPLETED" THEN @ + 1 ELSE @,
                            !.FailureCount = IF result.Status = "COMPLETED" THEN @ ELSE @ + 1]
    /\ UNCHANGED <<wipeVars, strategyVars, cli, vr, pw, tw, bp, th, ph>>

\* ExecutePlan: the channel is closed and drained; the status (part_000 238-258)
CollectEnd ==
    /\ mo.pc = "p_collect"
    /\ mo.ch = << >>
    /\ mo.closed
    /\ mo' = [mo EXCEPT !.Status = ReportStatus(mo.SuccessCount, mo.FailureCount),
                        !.pc = "p_returned"]
    /\ UNCHANGED <<wipeVars, strategyVars, cli, vr, pw, tw, bp, th, ph>>

\* the plans explored: the first n phases, any outcome of each
Plans == {SubSeq(PlanPhases, 1, n) : n \in 0..MaxPhases}

InitPlan ==
    /\ driver = "maintenance"
    /\ pc = "idle"
    /\ NoWipe
    /\ NoStrategy
    /\ NoCli
    /\ NoVerifier
    /\ NoPhase
    /\ NoThrottle
    /\ NoProgress
    /\ NoWriter
    /\ NoPool
    /\ \E phases \in Plans, parallel, silent \in BOOLEAN :
         \E outcome \in [1..Len(phases) -> BOOLEAN] :
            mo = [ pc |-> "p_start", phases |-> phases, parallel |-> parallel,
                   silent |-> silent, outcome |-> outcome, k |-> 0,
                   task |-> [t \in 1..Len(phases) |-> "none"],
                   closer |-> "none", worker |-> "none", i |-> 0,
                   ch |-> << >>, closed |-> FALSE, panicked |-> FALSE, started |-> << >>,
                   PhaseResults |-> << >>, SuccessCount |-> 0, FailureCount |-> 0,
                   Status |-> "" ]

NextPlan ==
    \/ ExecutePlan
    \/ SpawnPhase
    \/ SpawnCloser
    \/ \E t \in 1..Len(mo.task) : PhaseRun(t)
    \/ \E t \in 1..Len(mo.task) : PhaseSend(t)
    \/ \E t \in 1..Len(mo.task) : PhaseDone(t)
    \/ CloserClose
    \/ SpawnWorker
    \/ WorkerRun
    \/ WorkerSend
    \/ WorkerClose
    \/ Collect
    \/ CollectEnd

SpecPlan == InitPlan /\ [][NextPlan]_vars

(***************************************************************************)
(* PersistentFileWiper.Wipe and the progress channel of its caller.        *)
(* persistent_file_wiper.go offers an update after every write of its      *)
(* loop; part_013 writes until the disk is full and sends an update every  *)
(* 100 MB.  One write of the model is one write followed by an update.     *)
(***************************************************************************)
WiperImpls == {"persistent_file_wiper.go", "part_013"}

notProgress == <<wipeVars, strategyVars, cli, vr, mo, tw, bp, th, ph>>

\* Wipe up to its loop.  persistent_file_wiper.go 56-58 refuses a disk
\* without free space; part_013 41-82 does not ask for the free space.
StartWipe ==
    /\ pw.pc = "start"
    /\ pw' = IF pw.impl = "persistent_file_wiper.go" /\ pw.free = 0
             THEN [pw EXCEPT !.pc = "returned", !.err = Ru("na diske net svobodnogo mesta")]
             ELSE [pw EXCEPT !.pc = "loop"]
    /\ UNCHANGED notProgress

\* the check of the context at the head of the outer loop
\* (persistent_file_wiper.go 93-105, part_013 86-91)
WipeCheckContext ==
    /\ pw.pc = "loop"
    /\ pw' = IF pw.ctxDone
             THEN [pw EXCEPT !.pc = "returned", !.Cancelled = TRUE,
                             !.err = IF pw.impl = "part_013"
                                     THEN ErrCancelledRu
                                     ELSE "context canceled"]
             ELSE [pw EXCEPT !.pc = "write"]
    /\ UNCHANGED notProgress

\* file.Write: the disk-full error ends the wipe with Success (break and
\* Sync, Close, Remove in persistent_file_wiper.go 108-117, 158-189; goto
\* cleanup in part_013 147-157, 183-198)
WipeWrite ==
    /\ pw.pc = "write"
    /\ pw' = IF pw.written = pw.free
             THEN [pw EXCEPT !.pc = "returned", !.Success = TRUE]
             ELSE [pw EXCEPT !.pc = "send", !.written = @ + 1]
    /\ UNCHANGED notProgress

\* the progress update.  persistent_file_wiper.go 140-147 selects between
\* the send, the end of the context and default; part_013 168 sends and
\* goes on with the next write of the inner loop, which has no check of
\* the context.
WipeSend ==
    /\ pw.pc = "send"
    /\ IF pw.impl = "persistent_file_wiper.go"
       THEN \/ /\ pw.ch < ProgressCap
               /\ pw' = [pw EXCEPT !.pc = "loop", !.ch = @ + 1, !.sent = @ + 1]
            \/ /\ pw.ctxDone
               /\ pw' = [pw EXCEPT !.pc = "returned", !.Cancelled = TRUE,
                                   !.err = "context canceled"]
            \/ /\ pw.ch >= ProgressCap
               /\ ~pw.ctxDone
               /\ pw' = [pw EXCEPT !.pc = "loop", !.dropped = @ + 1]
       ELSE /\ pw.ch < ProgressCap
            /\ pw' = [pw EXCEPT !.pc = "write", !.ch = @ + 1, !.sent = @ + 1]
    /\ UNCHANGED notProgress

\* showProgress (interactive.go 370-384) takes an update off the channel
ShowProgress ==
    /\ pw.consumer
    /\ pw.ch > 0
    /\ pw' = [pw EXCEPT !.ch = @ - 1]
    /\ UNCHANGED notProgress

\* showProgress returns when its context ends
ShowProgressReturn ==
    /\ pw.consumer
    /\ pw.ctxDone
    /\ pw' = [pw EXCEPT !.consumer = FALSE]
    /\ UNCHANGED notProgress

\* the context of the wipe is cancelled
CancelWipe ==
    /\ pw.pc \in {"loop", "write", "send"}
    /\ ~pw.ctxDone
    /\ pw' = [pw EXCEPT !.ctxDone = TRUE]
    /\ UNCHANGED notProgress

\* StartWipe (app.go 143-159) makes the channel and starts no reader of it;
\* executeWipe (interactive.go 281-295) starts showProgress
InitProgress ==
    /\ driver = "progress"
    /\ pc = "idle"
    /\ NoWipe
    /\ NoStrategy
    /\ NoCli
    /\ NoVerifier
    /\ NoPhase
    /\ NoThrottle
    /\ NoPlan
    /\ NoWriter
    /\ NoPool
    /\ \E impl \in WiperImpls, consumer \in BOOLEAN, free \in 0..MaxWrites :
         pw = [ pc |-> "start", impl |-> impl, consumer |-> consumer, free |-> free,
                ctxDone |-> FALSE, ch |-> 0, written |-> 0, sent |-> 0, dropped |-> 0,
                Cancelled |-> FALSE, Success |-> FALSE, err |-> "" ]

NextProgress ==
    \/ StartWipe
    \/ WipeCheckContext
    \/ WipeWrite
    \/ WipeSend
    \/ ShowProgress
    \/ ShowProgressReturn
    \/ CancelWipe

SpecProgress == InitProgress /\ [][NextProgress]_vars

(***************************************************************************)
(* ThrottledWriter (throttled_writer.go) called by several goroutines.     *)
(* tw.mu is 0 when free, otherwise the goroutine that holds it; a deferred *)
(* Unlock is part of the step that returns.  Write reads tw.closed before  *)
(* it takes the lock; that read is a step of its own.                      *)
(***************************************************************************)
Callers == 1..NumCallers

ErrClosedPipe == "io: read/write on closed pipe"
\* what os.File returns for Write once it is closed
ErrFileClosed == "file already closed"

notWriter == <<wipeVars, strategyVars, cli, vr, mo, pw, bp, th, ph>>

\* the call of g returns n and err
Returns(g, n, e) ==
    [tw EXCEPT !.call[g] = [op |-> "none", pc |-> "idle", len |-> 0],
               !.returned = @ \cup {[op |-> tw.call[g].op, n |-> n, err |-> e,
                                     fileClosed |-> tw.fileClosed]}]

\* a goroutine calls Write(data), Sync() or Close()
Call(g, o, len) ==
    /\ tw.call[g].pc = "idle"
    /\ tw.calls < MaxCalls
    /\ tw' = [tw EXCEPT !.calls = @ + 1,
                        !.call[g] = [op |-> o, len |-> len,
                                     pc |-> IF o = "Write" THEN "check" ELSE "lock"]]
    /\ UNCHANGED notWriter

\* Write 31-37: tw.closed and len(data), read without the lock
WriteCheck(g) ==
    /\ tw.call[g].pc = "check"
    /\ tw' = IF tw.closed THEN Returns(g, 0, ErrClosedPipe)
             ELSE IF tw.call[g].len = 0 THEN Returns(g, 0, "")
             ELSE [tw EXCEPT !.call[g].pc = "lock"]
    /\ UNCHANGED notWriter

\* tw.mu.Lock() of Write 39, Sync 61 and Close 73
Lock(g) ==
    /\ tw.call[g].pc = "lock"
    /\ tw.mu = 0
    /\ tw' = [tw EXCEPT !.mu = g, !.call[g].pc = "locked"]
    /\ UNCHANGED notWriter

\* Write 42-56 under the lock: the pause, tw.file.Write, tw.lastWrite
WriteLocked(g) ==
    /\ tw.call[g].pc = "locked"
    /\ tw.call[g].op = "Write"
    /\ tw' = [ (IF tw.fileClosed
                THEN Returns(g, 0, ErrFileClosed)
                ELSE Returns(g, tw.call[g].len, ""))
              EXCEPT !.mu = 0, !.lastWrite = @ + 1,
                     !.touched = IF tw.fileClosed THEN @ \cup {"Write"} ELSE @ ]
    /\ UNCHANGED notWriter

\* Sync 64-68 under the lock
SyncLocked(g) ==
    /\ tw.call[g].pc = "locked"
    /\ tw.call[g].op = "Sync"
    /\ tw' = [ (IF tw.closed THEN Returns(g, 0, ErrClosedPipe) ELSE Returns(g, 0, ""))
              EXCEPT !.mu = 0 ]
    /\ UNCHANGED notWriter

\* Close 76-81 under the lock
CloseLocked(g) ==
    /\ tw.call[g].pc = "locked"
    /\ tw.call[g].op = "Close"
    /\ tw' = IF tw.closed
             THEN [Returns(g, 0, "") EXCEPT !.mu = 0]
             ELSE [Returns(g, 0, "")
                   EXCEPT !.mu = 0, !.closed = TRUE, !.fileClosed = TRUE,
                          !.fileCloses = @ + 1]
    /\ UNCHANGED notWriter

\* NewThrottledWriter 20-27 on an open file
InitWriter ==
    /\ driver = "writer"
    /\ pc = "idle"
    /\ NoWipe
    /\ NoStrategy
    /\ NoCli
    /\ NoVerifier
    /\ NoPhase
    /\ NoThrottle
    /\ NoPlan
    /\ NoProgress
    /\ NoPool
    /\ tw = [ closed |-> FALSE, fileClosed |-> FALSE, mu |-> 0,
              call |-> [g \in Callers |-> [op |-> "none", pc |-> "idle", len |-> 0]],
              calls |-> 0, lastWrite |-> 0, fileCloses |-> 0, touched |-> {},
              returned |-> {} ]

NextWriter ==
    \/ \E g \in Callers, len \in 0..1 : Call(g, "Write", len)
    \/ \E g \in Callers : Call(g, "Sync", 0)
    \/ \E g \in Callers : Call(g, "Close", 0)
    \/ \E g \in Callers : WriteCheck(g)
    \/ \E g \in Callers : Lock(g)
    \/ \E g \in Callers : WriteLocked(g)
    \/ \E g \in Callers : SyncLocked(g)
    \/ \E g \in Callers : CloseLocked(g)

SpecWriter == InitWriter /\ [][NextWriter]_vars

(***************************************************************************)
(* The buffer pool (buffer_pool.go).  A backing array is a sequence of     *)
(* blocks of Block bytes, 0 for a block of zero bytes and 1 for a block    *)
(* with other data; a slice is the array, a length and the capacity of the *)
(* array, and every slice of the pool starts at the first byte.  bp.pools  *)
(* holds the keys of the map, bp.items what each sync.Pool holds.          *)
(***************************************************************************)
Block == 1024

Owners == 1..NumOwners

poolSizes == <<1024, 4096, 16384, 65536, 262144, 1048576, 4194304, 16777216>>

RECURSIVE FirstPoolSize(_, _)
FirstPoolSize(size, i) ==
    IF i > Len(poolSizes) THEN ((size + 4095) \div 4096) * 4096
    ELSE IF size <= poolSizes[i] THEN poolSizes[i]
    ELSE FirstPoolSize(size, i + 1)

getPoolSize(size) == FirstPoolSize(size, 1)

\* the sizes asked for: two of them fall in one bucket
RequestSizes == {1 * Block, 2 * Block, 4 * Block}
Buckets == {getPoolSize(size) : size \in RequestSizes}

notPool == <<wipeVars, strategyVars, cli, vr, mo, pw, tw, th, ph>>

\* make([]byte, poolSize) of the New of a sync.Pool
MakeBytes(poolSize) == [i \in 1..(poolSize \div Block) |-> 0]

\* cap(buf) of a slice of array b
Cap(b) == Len(bp.mem[b]) * Block

\* a pool that hands out a buffer and keeps it
Kept(held, b) == held

\* what a sync.Pool holds once Get has handed out b
Taken(held, b) == held \ {b}

\* a release that clears the first block only
ZeroedFirstBlock(array, len) ==
    [i \in 1..Len(array) |-> IF i = 1 THEN 0 ELSE array[i]]

\* for i := range buf { buf[i] = 0 } on a slice of length len
Zeroed(array, len) ==
    [i \in 1..Len(array) |-> IF (i - 1) * Block < len THEN 0 ELSE array[i]]

\* an owner has a buffer from its Get to the end of its Put
Holds(o) == bp.owner[o].pc \in {"held", "used", "p_put"}

NoOwner == [pc |-> "idle", size |-> 0, poolSize |-> 0, buf |-> 0, len |-> 0,
            recycled |-> FALSE]

\* GetBuffer 19-25 and getBuffer 39-43: the size of the bucket and the
\* lookup under the read lock
GetBuffer(o, size) ==
    /\ bp.owner[o].pc = "idle"
    /\ size > 0
    /\ LET poolSize == getPoolSize(size)
       IN  bp' = [bp EXCEPT !.owner[o] =
                     [NoOwner EXCEPT !.size = size, !.poolSize = poolSize,
                                     !.pc = IF poolSize \in bp.pools
                                            THEN "g_get" ELSE "g_create"]]
    /\ UNCHANGED notPool

\* getBuffer 45-58: the second lookup and the new sync.Pool under the lock
GetCreate(o) ==
    /\ bp.owner[o].pc = "g_create"
    /\ bp' = [bp EXCEPT !.pools = @ \cup {bp.owner[o].poolSize},
                        !.owner[o].pc = "g_get"]
    /\ UNCHANGED notPool

\* getBuffer 60-61: pool.Get hands out a buffer the pool holds, or a new
\* one from New, and the result is cut to the size asked for
GetFromPool(o) ==
    /\ bp.owner[o].pc = "g_get"
    /\ LET ps == bp.owner[o].poolSize
       IN  \/ \E b \in bp.items[ps] :
                bp' = [bp EXCEPT !.items[ps] = Taken(@, b),
                                 !.owner[o] = [@ EXCEPT !.pc = "held", !.buf = b,
                                                        !.len = bp.owner[o].size,
                                                        !.recycled = b \in bp.filled]]
           \/ /\ Len(bp.mem) < MaxBuffers
              /\ bp' = [bp EXCEPT !.mem = Append(@, MakeBytes(ps)),
                                  !.owner[o] = [@ EXCEPT !.pc = "held",
                                                         !.buf = Len(bp.mem) + 1,
                                                         !.len = bp.owner[o].size]]
    /\ UNCHANGED notPool

\* the owner writes into the first n bytes of its buffer (createWipeFile,
\* engine.go 366-367: b := buf[:toWrite], FillRandom(b))
Fill(o, n) ==
    /\ bp.owner[o].pc = "held"
    /\ n \in 1..bp.owner[o].len
    /\ LET b == bp.owner[o].buf
       IN  bp' = [bp EXCEPT !.mem[b] = [i \in 1..Len(@) |->
                                          IF (i - 1) * Block < n THEN 1 ELSE @[i]],
                            !.filled = @ \cup {b},
                            !.owner[o].pc = "used"]
    /\ UNCHANGED notPool

\* PutBuffer 28-34 with the slice GetBuffer returned, and putBuffer 66-73:
\* the size of the bucket from cap(buf) and the lookup under the read lock;
\* without a pool of that size the buffer is left to the collector
PutBuffer(o) ==
    /\ bp.owner[o].pc \in {"held", "used"}
    /\ bp.owner[o].len > 0
    /\ LET poolSize == getPoolSize(Cap(bp.owner[o].buf))
       IN  bp' = [bp EXCEPT !.owner[o] = IF poolSize \in bp.pools
                                        THEN [@ EXCEPT !.pc = "p_put",
                                                       !.poolSize = poolSize]
                                        ELSE NoOwner]
    /\ UNCHANGED notPool

\* putBuffer 75-78: the buffer is zeroed and put back with its capacity
PutToPool(o) ==
    /\ bp.owner[o].pc = "p_put"
    /\ LET b == bp.owner[o].buf
       IN  bp' = [bp EXCEPT !.mem[b] = Zeroed(@, bp.owner[o].len),
                            !.items[bp.owner[o].poolSize] = @ \cup {b},
                            !.owner[o] = NoOwner]
    /\ UNCHANGED notPool

\* globalBufferPool 14-16: no pools yet
InitPool ==
    /\ driver = "pool"
    /\ pc = "idle"
    /\ NoWipe
    /\ NoStrategy
    /\ NoCli
    /\ NoVerifier
    /\ NoPhase
    /\ NoThrottle
    /\ NoPlan
    /\ NoProgress
    /\ NoWriter
    /\ bp = [ pools |-> {}, items |-> [ps \in Buckets |-> {}], mem |-> << >>,
              owner |-> [o \in Owners |-> NoOwner], filled |-> {} ]

NextPool ==
    \/ \E o \in Owners, size \in RequestSizes : GetBuffer(o, size)
    \/ \E o \in Owners : GetCreate(o)
    \/ \E o \in Owners : GetFromPool(o)
    \/ \E o \in Owners, n \in RequestSizes : Fill(o, n)
    \/ \E o \in Owners : PutBuffer(o)
    \/ \E o \in Owners : PutToPool(o)

SpecPool == InitPool /\ [][NextPool]_vars

(***************************************************************************)
(* The pacing of ThrottledWriter.Write (throttled_writer.go 30-57).        *)
(* th.clock is the time in units of time.Duration, Second of them in a     *)
(* second; it moves at any moment.  th.previous is the time at which the   *)
(* file.Write before the current one returned (the time of construction    *)
(* for the first), th.issuedAt the time at which the current one is called.*)
(***************************************************************************)
notThrottle == <<wipeVars, strategyVars, cli, vr, mo, pw, tw, bp, ph>>

\* time.Duration(float64(len(data)) / bytesPerSec * float64(time.Second))
Expected(len, maxSpeedMBps) == (len * Second) \div (maxSpeedMBps * MiB)

\* the stamp Write leaves in tw.lastWrite, had it kept the time it read
\* before the pause
StampOnEntry(now, after) == now

\* tw.lastWrite = time.Now() after tw.file.Write has returned
Stamp(now, after) == after

\* time passes
Tick ==
    /\ th.pc # "idle" \/ th.writes < PacedWrites
    /\ th.clock < MaxClock
    /\ th' = [th EXCEPT !.clock = @ + 1]
    /\ UNCHANGED notThrottle

\* Write 31-52: the lock, now := time.Now() and the decision to pause
PacedWriteBegin(len) ==
    /\ th.pc = "idle"
    /\ th.writes < PacedWrites
    /\ len > 0
    /\ LET pause == /\ th.maxSpeedMBps > 0
                    /\ th.clock - th.lastWrite < Expected(len, th.maxSpeedMBps)
       IN  th' = [th EXCEPT !.pc = IF pause THEN "sleep" ELSE "write",
                            !.now = th.clock, !.len = len, !.writes = @ + 1,
                            !.slept = pause,
                            !.wake = IF pause
                                     THEN th.clock + (Expected(len, th.maxSpeedMBps)
                                                        - (th.clock - th.lastWrite))
                                     ELSE th.clock]
    /\ UNCHANGED notThrottle

\* time.Sleep(expected - actual) returns, not before the time is over
PacedSleepReturns ==
    /\ th.pc = "sleep"
    /\ th.clock >= th.wake
    /\ th' = [th EXCEPT !.pc = "write"]
    /\ UNCHANGED notThrottle

\* Write 54: tw.file.Write(data) is called
PacedFileWrite ==
    /\ th.pc = "write"
    /\ th' = [th EXCEPT !.pc = "writing", !.issuedAt = th.clock]
    /\ UNCHANGED notThrottle

\* Write 54-56: tw.file.Write returns, tw.lastWrite = time.Now(), Unlock
PacedWriteEnd ==
    /\ th.pc = "writing"
    /\ th' = [th EXCEPT !.pc = "idle", !.lastWrite = Stamp(th.now, th.clock),
                        !.previous = th.clock]
    /\ UNCHANGED notThrottle

\* the limits explored: none, 1 MB/s and 3 MB/s
PacedSpeeds == {0, 1, 3}
PacedSizes == {1 * MiB, 2 * MiB}

\* NewThrottledWriter 20-27: lastWrite is the time of construction
InitThrottle ==
    /\ driver = "throttle"
    /\ pc = "idle"
    /\ NoWipe
    /\ NoStrategy
    /\ NoCli
    /\ NoVerifier
    /\ NoPhase
    /\ NoPlan
    /\ NoProgress
    /\ NoWriter
    /\ NoPool
    /\ \E speed \in PacedSpeeds :
         th = [ pc |-> "idle", maxSpeedMBps |-> speed, clock |-> 0, lastWrite |-> 0,
                now |-> 0, len |-> 0, wake |-> 0, writes |-> 0, issuedAt |-> 0,
                previous |-> 0, slept |-> FALSE ]

NextThrottle ==
    \/ Tick
    \/ \E len \in PacedSizes : PacedWriteBegin(len)
    \/ PacedSleepReturns
    \/ PacedFileWrite
    \/ PacedWriteEnd

SpecThrottle == InitThrottle /\ [][NextThrottle]_vars

(***************************************************************************)
(* The wipe_free_space phase: executePhase calling wipeFreeSpace           *)
(* (part_000 262-320, 358-389).  ph.ops lists the status of the wipe       *)
(* operation of every disk the phase attempted.                            *)
(***************************************************************************)
notPhase == <<wipeVars, strategyVars, cli, vr, mo, pw, tw, bp, th>>

\* allowSystemDisk (part_000 421-424)
allowSystemDisk == FALSE

\* what WipeWithEngine can return for a disk (strategy.go 240-284)
DiskOperations(d) ==
    { [Status |-> "COMPLETED", Error |-> "", BytesWiped |-> d.FreeSize],
      [Status |-> "PARTIAL",   Error |-> "", BytesWiped |-> 0],
      [Status |-> "CANCELLED", Error |-> "", BytesWiped |-> 0],
      [Status |-> "FAILED",    Error |-> ErrCancelledRu, BytesWiped |-> 0] }

\* wipeFreeSpace up to the loop over the disks (part_000 358-369)
WipeFreeSpaceBegin ==
    /\ ph.pc = "w_start"
    /\ IF ph.dryRun
       THEN ph' = [ph EXCEPT !.totalWiped = 10 * GiB, !.pc = "w_returned"]
       ELSE IF ph.getErr
       THEN ph' = [ph EXCEPT !.err = Ru("oshibka polucheniya diskov: ") \o "wmic",
                             !.pc = "w_returned"]
       ELSE ph' = [ph EXCEPT !.i = 1, !.pc = "w_loop"]
    /\ UNCHANGED notPhase

\* one turn of the loop over the disks (part_000 371-386)
WipeFreeSpaceDisk ==
    /\ ph.pc = "w_loop"
    /\ ph.i <= Len(ph.disks)
    /\ LET d == ph.disks[ph.i]
       IN  IF d.IsSystem /\ ~allowSystemDisk
           THEN ph' = [ph EXCEPT !.i = @ + 1]
           ELSE \E o \in DiskOperations(d) :
                    ph' = [ph EXCEPT !.i = @ + 1,
                                     !.ops = Append(@, o.Status),
                                     !.totalWiped = IF o.Status = "COMPLETED"
                                                    THEN @ + o.BytesWiped ELSE @]
    /\ UNCHANGED notPhase

\* return totalWiped, nil (part_000 388)
WipeFreeSpaceReturn ==
    /\ ph.pc = "w_loop"
    /\ ph.i > Len(ph.disks)
    /\ ph' = [ph EXCEPT !.pc = "w_returned"]
    /\ UNCHANGED notPhase

\* executePhase after the phase has returned (part_000 306-319)
ExecutePhaseEnd ==
    /\ ph.pc = "w_returned"
    /\ ph' = [ph EXCEPT !.Status = executePhase("wipe_free_space", ph.err # "").Status,
                        !.pc = "w_done"]
    /\ UNCHANGED notPhase

PhaseDisks ==
    UNION {[1..n -> [IsSystem : BOOLEAN, FreeSize : {512 * MiB, 1 * GiB}]] : n \in 0..MaxDisks}

InitPhase ==
    /\ driver = "phase"
    /\ pc = "idle"
    /\ NoWipe
    /\ NoStrategy
    /\ NoCli
    /\ NoVerifier
    /\ NoPlan
    /\ NoProgress
    /\ NoWriter
    /\ NoPool
    /\ NoThrottle
    /\ \E dry, getErr \in BOOLEAN, disks \in PhaseDisks :
         ph = [ pc |-> "w_start", dryRun |-> dry, getErr |-> getErr, disks |-> disks,
                i |-> 0, totalWiped |-> 0, ops |-> << >>, err |-> "", Status |-> "" ]

NextPhase ==
    \/ WipeFreeSpaceBegin
    \/ WipeFreeSpaceDisk
    \/ WipeFreeSpaceReturn
    \/ ExecutePhaseEnd

SpecPhase == InitPhase /\ [][NextPhase]_vars

(***************************************************************************)
(* Properties of the free-space wipe (SpecWipe).                           *)
(***************************************************************************)
ExecuteAndCleanupReturned == pc = "handle"
Returned == pc = "returned"

\* C1: once Execute and the Cleanup after it have returned, and no delete
\* failed, no file the session created is left on the volume, whatever ended
\* the pass; the file being written when the pass ended included.
C1_NoArtifactAfterCleanup ==
    (ExecuteAndCleanupReturned /\ ~hist.removeFailed)
        => hist.created \cap DOMAIN files = {}

\* A write on an artifact of the session failed with the volume-full error
\* and Execute has returned.
VolumeFullWriteEnded ==
    /\ pc = "cleanup"
    /\ hist.cause = "diskfull"
    /\ hist.created # {}

C3_CancelAndTimeoutStatus ==
    Returned =>
        /\ hist.cause = "cancel" => op.Status = "CANCELLED"
        /\ hist.cause \in {"deadline", "maxduration"} => op.Status = "PARTIAL"

\* C4: when every configured pass ran to its end with no cancellation, no
\* timeout and no error, the operation is returned COMPLETED, never RUNNING.
C4_CleanRunCompleted ==
    (Returned /\ ~dryRun /\ pass > op.Passes /\ hist.causes \subseteq {"exhausted"})
        => op.Status = "COMPLETED"

\* C8: once the status of the operation is terminal, no step changes the
\* status or the bytes-wiped count.
C8_TerminalIsFinal ==
    [][op.Status \in Terminal
          => (op'.Status = op.Status /\ op'.BytesWiped = op.BytesWiped)]_vars

\* C9: when the operation returns after a pass that was cancelled once an
\* artifact had been written, its byte count is what the sessions wrote.
C9_CancelledByteCount ==
    (Returned /\ hist.cause = "cancel" /\ hist.done # {} /\ Used < volume.capacity)
        => op.BytesWiped = hist.opAccepted

\* C10: once the context is done (cancelled or past its deadline) the chunk
\* loop of createWipeFile starts no further chunk write.
C10_NoChunkAfterDone ==
    [][(ctx # "active" /\ pc = "cwf_loop") => pc' \notin {"tw_sleep", "tw_write"}]_vars

(***************************************************************************)
(* Properties of the wipe with a strategy (SpecStrategy).                  *)
(***************************************************************************)
\* C5: in ExecuteWipeWithStrategy a volume-full write error ends the pass
\* as a success: the pass returns no error, and the operation does not
\* become FAILED because of it.
C5_StrategyVolumeFullIsSuccess ==
    (hist.cause = "diskfull" /\ hist.created # {})
        => /\ pc = "s_pass_end" => err = ""
           /\ op.Status # "FAILED"

\* The pass count configured for the storage class of the disk.
ConfiguredPasses == IF disk.Type = "SSD" THEN cfg.SSDPasses ELSE cfg.HDDPasses

\* C11: a wipe in a mode other than cipher returns an operation whose Passes
\* is the pass count configured for the storage class of the disk, and a run
\* that completed made that many passes.
C11_PassesOfStorageClass ==
    (pc = "s_returned" /\ mode # ModeCipher)
        => /\ op.Passes = ConfiguredPasses
           /\ (op.Status = "COMPLETED" /\ ~dryRun) => pass = ConfiguredPasses

(***************************************************************************)
(* Properties of the `wipe` command (SpecCli).                             *)
(***************************************************************************)
\* C6: no wipe is started on the system volume unless allow-system-disk was
\* given, and none on a solid-state system volume unless the policy forces
\* it.
C6_SystemVolumeGate ==
    \A d \in cli.started :
        d.IsSystem => /\ cli.allowSystemDisk
                      /\ d.Type = "SSD" => GetDefaultSystemDiskPolicy.ForceWipeSSD

\* Every allow-listed path of the policy ends in a directory named Temp: a
\* path inside one of them has a component "Temp".
InAllowedPath(path) == Contains(ToLower(path), "temp\\")

\* C13: when the policy of the system disk applies to a disk, every artifact
\* the wipe writes on it lies inside an allow-listed temp directory and is
\* no larger than MaxTempSizeGB.
C13_PolicyConfinesArtifacts ==
    \A a \in cli.artifacts :
        a.disk \in cli.policy
            => /\ InAllowedPath(a.path)
               /\ a.size <= GetDefaultSystemDiskPolicy.MaxTempSizeGB * GiB

(***************************************************************************)
(* Properties of the verifier (SpecVerify).                                *)
(***************************************************************************)
Count(anomalies, severity) ==
    Cardinality({k \in 1..Len(anomalies) : anomalies[k].Severity = severity})

\* C7: the success rate of a finished report is
\* max(0, 100 - 20 high - 10 medium - 5 low - RecoveredData / 1024).
C7_SuccessRateFormula ==
    vr.pc = "v_done" =>
        LET rate == 100 * Point - 20 * Point * Count(vr.Anomalies, "high")
                                - 10 * Point * Count(vr.Anomalies, "medium")
                                - 5 * Point * Count(vr.Anomalies, "low")
                                - vr.RecoveredData
        IN  vr.SuccessRate = IF rate < 0 THEN 0 ELSE rate

\* The rates around the thresholds, in units of 1/Point percent.
SuccessRates == {k * Point + d : k \in 80..100, d \in {-1, 0, 1}}

Has(compliance, standard) == \E k \in 1..Len(compliance) : compliance[k] = standard

Graded(rate, compliance) ==
    /\ Has(compliance, "DOD5220")    <=> rate >= 95 * Point
    /\ Has(compliance, "NIST800-88") <=> rate >= 90 * Point
    /\ Has(compliance, "BSI_VSITR")  <=> rate >= 85 * Point
    /\ Has(compliance, "DOD5220")    => Has(compliance, "NIST800-88")
    /\ Has(compliance, "NIST800-88") => Has(compliance, "BSI_VSITR")

\* C12: in a returned report WipeVerified is true exactly when the rate is at
\* least 95, and the compliance set holds DOD5220 exactly from 95, NIST800-88
\* exactly from 90 and BSI_VSITR exactly from 85, so the set is nested; the
\* grading is also checked for every rate around the thresholds.
C12_VerifiedAndCompliance ==
    /\ \A rate \in SuccessRates : Graded(rate, determineCompliance(rate))
    /\ vr.pc = "v_done"
          => /\ vr.WipeVerified <=> (vr.SuccessRate >= 95 * Point)
             /\ Graded(vr.SuccessRate, vr.Compliance)

C12_Witness ==
    /\ vr.pc = "v_done"
    /\ vr.RecoveryAttempts > 0
    /\ vr.WipeVerified
    /\ Len(vr.Compliance) = 3

(***************************************************************************)
(* Properties of the maintenance plan (SpecPlan).                          *)
(***************************************************************************)
Succeeded(results) == {j \in 1..Len(results) : results[j].Status = "COMPLETED"}
Failed(results)    == {j \in 1..Len(results) : results[j].Status = "FAILED"}

\* C14: for a non-empty collection of phase results the returned report is
\* COMPLETED exactly when no phase failed, PARTIAL exactly when a phase
\* succeeded and a phase failed, FAILED exactly when no phase succeeded; a
\* returned report is never RUNNING.
C14_ReportStatus ==
    mo.pc = "p_returned" =>
        /\ mo.Status # "RUNNING"
        /\ Len(mo.PhaseResults) > 0 =>
              /\ mo.Status = "COMPLETED" <=> Failed(mo.PhaseResults) = {}
              /\ mo.Status = "PARTIAL"   <=> /\ Succeeded(mo.PhaseResults) # {}
                                             /\ Failed(mo.PhaseResults) # {}
              /\ mo.Status = "FAILED"    <=> Succeeded(mo.PhaseResults) = {}

C14_Witness ==
    /\ mo.pc = "p_returned"
    /\ mo.Status = "PARTIAL"
    /\ Succeeded(mo.PhaseResults) # {}
    /\ Failed(mo.PhaseResults) # {}

\* C15: in sequential mode the phases start in plan order, each after the
\* result of the one before was delivered; in a plan that is not silent no
\* phase starts after a phase that failed; a silent plan runs every phase.
C15_SequentialOrder ==
    (~mo.parallel /\ mo.pc \in {"p_collect", "p_returned"}) =>
        /\ \A j \in 1..Len(mo.started) : mo.started[j] = j
        /\ Len(mo.started) <= Len(mo.ch) + Len(mo.PhaseResults) + 1
        /\ ~mo.silent =>
              \A j \in 1..Len(mo.started) : \A h \in 1..(j - 1) : ~mo.outcome[mo.started[h]]
        /\ (mo.silent /\ mo.pc = "p_returned") => Len(mo.started) = Len(mo.phases)

C15_Witness ==
    /\ ~mo.parallel
    /\ ~mo.silent
    /\ mo.pc = "p_returned"
    /\ Failed(mo.PhaseResults) # {}
    /\ Len(mo.started) < Len(mo.phases)

\* C16: in parallel mode every phase is started and the report holds exactly
\* one result per phase; no send waits on a full channel or hits a closed
\* one, the channel is closed only after every result was sent, and the plan
\* can always take a step until it has returned.
C16_ParallelResults ==
    mo.parallel =>
        /\ ~mo.panicked
        /\ \A t \in 1..Len(mo.task) :
              mo.task[t] = "send" => Len(mo.ch) < ResultsCap(mo.phases)
        /\ mo.closed => \A t \in 1..Len(mo.task) : mo.task[t] \in {"sent", "done"}
        /\ mo.pc # "p_returned" => ENABLED NextPlan
        /\ mo.pc = "p_returned" =>
              /\ {mo.started[j] : j \in 1..Len(mo.started)} = 1..Len(mo.phases)
              /\ Len(mo.PhaseResults) = Len(mo.phases)
              /\ \A t \in 1..Len(mo.phases) :
                    Cardinality({j \in 1..Len(mo.PhaseResults) :
                                    mo.PhaseResults[j] = executePhase(mo.phases[t], mo.outcome[t])}) = 1

C16_Witness ==
    /\ mo.parallel
    /\ mo.pc = "p_returned"
    /\ Len(mo.phases) = MaxPhases
    /\ mo.PhaseResults[1].Phase = mo.phases[MaxPhases]


(***************************************************************************)
(* Properties of the progress channel (SpecProgress).                      *)
(***************************************************************************)
\* C17: a progress channel that is full or never drained never blocks the
\* write loop: whenever the wipe is at its progress update, the update can
\* be made at once (sent or dropped), whatever the reader of the channel does.
C17_ProgressNeverBlocks == pw.pc = "send" => ENABLED WipeSend

(***************************************************************************)
(* Properties of the ThrottledWriter (SpecWriter).                         *)
(***************************************************************************)
\* C18: whatever the interleaving of Write, Sync and Close, no Write or Sync
\* touches the file once Close has closed it -- a Write or Sync that returns
\* after the file was closed returns the closed error -- the file is closed
\* at most once and every Close returns success.
C18_ClosedWriterUntouched ==
    /\ tw.touched = {}
    /\ tw.fileCloses <= 1
    /\ \A r \in tw.returned :
         /\ (r.op \in {"Write", "Sync"} /\ r.fileClosed) => r.err = ErrClosedPipe
         /\ r.op = "Close" => r.err = ""

(***************************************************************************)
(* Properties of the buffer pool (SpecPool).                               *)
(***************************************************************************)
\* C19: whatever the interleaving of GetBuffer and PutBuffer, two owners
\* that hold a buffer at the same time hold different backing arrays.
C19_NoSharedBacking ==
    \A o1, o2 \in Owners :
        (o1 # o2 /\ Holds(o1) /\ Holds(o2)) => bp.owner[o1].buf # bp.owner[o2].buf

\* two owners hold buffers of one bucket, one of them handed out a second time
C19_Witness ==
    \E o1, o2 \in Owners :
        /\ o1 # o2
        /\ bp.owner[o1].pc = "held"
        /\ bp.owner[o2].pc = "used"
        /\ bp.owner[o1].recycled
        /\ Cap(bp.owner[o1].buf) = Cap(bp.owner[o2].buf)

\* C20: a buffer that comes out of GetBuffer is zero over the whole length
\* returned, whatever was written into it before it was released.
C20_ZeroOnGet ==
    \A o \in Owners :
        bp.owner[o].pc = "held" =>
            \A i \in 1..Len(bp.mem[bp.owner[o].buf]) :
                (i - 1) * Block < bp.owner[o].len => bp.mem[bp.owner[o].buf][i] = 0

\* a buffer that was filled and released is handed out again, with a
\* length greater than one block
C20_Witness ==
    \E o \in Owners :
        /\ bp.owner[o].pc = "held"
        /\ bp.owner[o].recycled
        /\ bp.owner[o].len = 4 * Block

(***************************************************************************)
(* Properties of the pacing of Write (SpecThrottle).                       *)
(***************************************************************************)
\* C21: with a limit R > 0 MB/s a Write of S bytes calls file.Write no
\* sooner than S / (R * 1 MiB) seconds after the file.Write before it
\* returned, to the unit of time.Duration (the pause is cut to a whole
\* number of units); with R = 0 Write never pauses.
C21_ThrottlingBound ==
    th.pc = "writing" =>
        /\ th.maxSpeedMBps > 0 =>
              (th.issuedAt - th.previous + 1) * th.maxSpeedMBps * MiB > th.len * Second
        /\ th.maxSpeedMBps = 0 => ~th.slept

\* a second Write under a limit paused and then called file.Write
C21_Witness ==
    /\ th.pc = "writing"
    /\ th.maxSpeedMBps = 3
    /\ th.writes = 2
    /\ th.slept
    /\ th.previous > 0

(***************************************************************************)
(* Properties of the wipe with a strategy (SpecStrategy), continued.       *)
(***************************************************************************)
\* the passes of a cipher wipe: every write of pass 1 is zero bytes, of
\* pass 2 0xFF bytes, of pass 3 random bytes; the passes start in that
\* order, each after the one before it ended without error; an operation
\* that ends COMPLETED has started all three
ThreeCipherPasses ==
    /\ hist.patterns \subseteq {<<0, "0x00">>, <<1, "0xFF">>, <<2, "random">>}
    /\ \A i \in 1..Len(hist.started) :
          /\ i <= 3
          /\ hist.started[i] = i - 1
          /\ i > 1 => hist.started[i - 1] \in hist.passed
    /\ (pc = "s_returned" /\ op.Status = "COMPLETED") => hist.started = <<0, 1, 2>>

\* C22 as stated: a wipe asked for in cipher mode that is no dry run makes
\* exactly the three cipher passes, whatever the configured pass count.
C22_CipherThreePasses ==
    (hist.requested = ModeCipher /\ ~dryRun) => ThreeCipherPasses

\* C22 with the engine: a wipe asked for in cipher mode with the internal
\* engine that is no dry run makes exactly the three cipher passes, whatever
\* the configured pass count.
C22_InternalCipherThreePasses ==
    (hist.requested = ModeCipher /\ hist.engine = EngineInternal /\ ~dryRun)
        => ThreeCipherPasses

\* a cipher wipe of the internal engine wrote in all three passes and ended
\* COMPLETED with a configured pass count other than three
C22_Witness ==
    /\ hist.requested = ModeCipher
    /\ hist.engine = EngineInternal
    /\ ~dryRun
    /\ cfg.SSDPasses # 3
    /\ pc = "s_returned"
    /\ op.Status = "COMPLETED"
    /\ hist.patterns = {<<0, "0x00">>, <<1, "0xFF">>, <<2, "random">>}

\* the documented table of the Standard strategy: profile, disk class, GiB
DocumentedFileSizes ==
    { <<"safe", "HDD", 1>>,       <<"safe", "SSD", 2>>,
      <<"balanced", "HDD", 2>>,   <<"balanced", "SSD", 4>>,
      <<"aggressive", "HDD", 4>>, <<"aggressive", "SSD", 8>>,
      <<"fast", "HDD", 8>>,       <<"fast", "SSD", 16>>,
      <<"sdelete", "HDD", 2>>,    <<"sdelete", "SSD", 4>> }

\* the operation of a standard wipe has been made
StandardOperation ==
    /\ mode = ModeStandard
    /\ pc \notin {"s_engine", "s_start", "s_cipher"}
    /\ hist.engine # EngineCipher

\* C23: for every pair of the documented table the Standard strategy gives
\* the documented file size, and every call of a run gives the same: the one
\* that fills op.ChunkSize and the one of each pass, which the file of a
\* pass takes when the free space estimate allows it.
C23_StandardFileSize ==
    /\ \A t \in DocumentedFileSizes : StandardGetFileSize(t[2], t[1]) = t[3] * GiB
    /\ StandardOperation =>
          \A t \in DocumentedFileSizes :
              (t[1] = profile /\ t[2] = disk.Type) =>
                  /\ op.ChunkSize = t[3] * GiB
                  /\ (pc = "clf_create" /\ sp.freeSpace >= t[3] * GiB)
                        => clf.fileSize = t[3] * GiB

\* a standard wipe of an HDD with the safe profile makes a file of 1 GiB
C23_Witness ==
    /\ StandardOperation
    /\ profile = "safe"
    /\ disk.Type = "HDD"
    /\ pc = "clf_create"
    /\ clf.fileSize = 1 * GiB
    /\ op.ChunkSize = 1 * GiB

\* a file of the pass is being created or written
InPassLoop ==
    pc \in {"clf_create", "clf_loop", "clf_sleep", "clf_write", "clf_psync", "clf_sync",
            "s_after"}

\* C24: while a file of a pass is written, every artifact the pass has
\* finished before it is still on the disk: none is deleted while a later
\* artifact of the pass is still to be written.
C24_ArtifactsStayUntilPassEnd ==
    InPassLoop =>
        \A i \in 0..(sp.fileIndex - 1) :
            StrategyFileName(disk.Letter, i, mode, pass) \in DOMAIN files

(***************************************************************************)
(* Properties of the free-space wipe (SpecWipe), continued.                *)
(***************************************************************************)
\* createWipeFile has created its file and has not returned
FileOpen == pc \in {"cwf_loop", "tw_sleep", "tw_write", "cwf_sync"}

\* the files Cleanup would remove
Listed == {ws.CreatedFiles[i] : i \in 1..Len(ws.CreatedFiles)}

\* C25: from the moment createWipeFile has created its file, before any
\* byte is written to it, the file is in the CreatedFiles of the session.
C25_ListedBeforeWritten ==
    FileOpen => cwf.filename \in Listed

\* C26: while createWipeFile writes its file, the bytes written since the
\* last successful sync (none is made before the file is complete, so all
\* the bytes of the file) never exceed the sync interval of the default
\* strategy plus one chunk.
C26_SyncEveryInterval ==
    FileOpen =>
        cwf.written <= GetSyncInterval(ModeStandard) + getAdaptiveChunkSize(ws.DiskType)

(***************************************************************************)
(* Properties of the wipe with a strategy (SpecStrategy), continued.       *)
(***************************************************************************)
\* C27: in a pass of random data no chunk is written from a buffer whose
\* random bytes were already written: every chunk is drawn anew.
C27_FreshRandomChunks == ~hist.reused

(***************************************************************************)
(* Properties of the wipe_free_space phase (SpecPhase).                    *)
(***************************************************************************)
\* C28: the wipe_free_space phase is reported COMPLETED only if the wipe
\* operation of every disk it attempted ended COMPLETED.
C28_PhaseCompletedMeansAllDisks ==
    (ph.pc = "w_done" /\ ph.Status = "COMPLETED")
        => \A k \in 1..Len(ph.ops) : ph.ops[k] = "COMPLETED"

(***************************************************************************)
(* Properties of the verification (SpecVerify), continued.                 *)
(***************************************************************************)
\* the attempt loop of the physical verification has ended by itself
PhysicalLoopEnded ==
    /\ vr.pc \in {"v_aggressive", "v_finish", "v_done"}
    /\ vr.RecoveryAttempts > 0
    /\ vr.err = ""

\* C29: the physical verification makes at most maxAttempts read-back
\* attempts and stops at the first attempt that matches: on a device whose
\* first read-back differs and whose second matches, the loop ends after
\* two attempts.
C29_StopsAtFirstMatch ==
    /\ vr.RecoveryAttempts <= vr.maxAttempts
    /\ (PhysicalLoopEnded /\ vr.device = "flaky") => vr.RecoveryAttempts = 2

(***************************************************************************)
(* Termination of WipeSession.Execute (SpecExecute).                       *)
(***************************************************************************)
\* free-space estimates of large disks: below and above the 20 GiB from
\* which the file size is drawn at random, and above the 1000 GiB from which
\* it is capped at 50 GiB
LargeEstimates == {1 * GiB + 1 * MiB, 21 * GiB, 40 * GiB, 2000 * GiB}

\* the file size drawn for an estimate above the threshold is at least
\* 1 GiB and no larger than the estimate
FileSizeWithinEstimate ==
    \A free \in LargeEstimates :
        \A fileSize \in FileSizeChoices(free) : fileSize >= 1 * GiB /\ fileSize <= free

\* the estimate does not underflow, the file being written is no larger
\* than the estimate, the files of the pass are no more than maxFiles
ExecuteBounds ==
    InSession =>
        /\ (pc = "exec_loop" /\ ex.fileIndex = 1 /\ ctx = "active" /\ ~elapsed)
               => FileSizeWithinEstimate
        /\ ws.FreeSpace >= 0
        /\ ws.FreeSpace <= disk.FreeSize
        /\ pc \in {"cwf_begin", "cwf_loop", "tw_sleep", "tw_write", "cwf_sync"}
               => cwf.fileSize <= ws.FreeSpace
        /\ Len(ws.CreatedFiles) <= maxFiles
        /\ ex.fileIndex <= maxFiles + 1

\* a turn of the loop that does not return has created one file and has
\* lowered the estimate by at least min(1 GiB, estimate)
LoopTurnLowers ==
    (pc = "cwf_sync" /\ pc' = "exec_after" /\ err' = "")
        => /\ ws'.FreeSpace + Min(1 * GiB, ws.FreeSpace) <= ws.FreeSpace
           /\ Len(ws'.CreatedFiles) = Len(ws.CreatedFiles) + 1

\* a turn that ended with an error returns from Execute
ErrorReturns ==
    (pc = "exec_after" /\ err # "") => pc' \in {"exec_after", "cleanup"}

\* C30: WipeSession.Execute always terminates: every turn of its loop
\* returns or creates one file and lowers the free-space estimate by at
\* least min(1 GiB, estimate); the estimate never underflows, the file size
\* never exceeds the estimate and the files never exceed maxFiles.
C30_ExecuteTerminates ==
    /\ []ExecuteBounds
    /\ [][LoopTurnLowers /\ ErrorReturns]_vars
    /\ (InSession ~> pc = "cleanup")

\* Execute has returned because the estimate went down to the threshold
\* after a file was created
C30_Witness ==
    /\ pc = "cleanup"
    /\ hist.cause = "exhausted"
    /\ hist.done # {}
    /\ ws.FreeSpace < disk.FreeSize

====
